---- MODULE Spec2Model ----
(***************************************************************************)
(* Contact-submission gateway of twistan: functions/api/contact.js.        *)
(*                                                                         *)
(* onRequestPost is an async function.  Between two awaits its code runs   *)
(* without interruption, so every action below is the settlement of one    *)
(* await together with all the synchronous code that follows it, up to the *)
(* next await or to the return of the Response.  Several invocations       *)
(* (slots) interleave at their awaits and share the KV namespace           *)
(* CONTACT_SUBMISSIONS.                                                    *)
(*                                                                         *)
(* JavaScript strings are kept run-length encoded: a sequence of runs      *)
(* [c |-> token, n |-> count].  A token stands for one character (" ",     *)
(* "@", ".", ",", a digit, a letter); an address such as "ip1" is written  *)
(* as one token.  Time is counted in ticks, TicksPerHour to the hour.      *)
(***************************************************************************)
EXTENDS Integers, Sequences, FiniteSets, TLC

\* ------------------------------------------------------------------ bounds
NumSlots == 2          \* invocations in flight at the same time
MaxReqs == 2           \* invocations started in one behaviour of Spec
MaxSeqReqs == 7        \* invocations started in one behaviour of SpecSeq
MaxNow == 2            \* last tick of the clock
TicksPerHour == 2      \* resolution of the clock

\* ------------------------------------------------------- program constants
MAX_REQUESTS == 5
WINDOW_HOURS == 1
MAX_NAME == 100
MAX_EMAIL == 254
MAX_MESSAGE == 5000
SecondsPerHour == 3600

\* ------------------------------------------------------------ JS strings
Run(c, n) == [c |-> c, n |-> n]
Chr(c) == <<Run(c, 1)>>
EmptyStr == << >>

\* s + c, keeping the encoding canonical (no two neighbouring runs of one token)
AppendChar(s, c) ==
    IF Len(s) > 0 /\ s[Len(s)].c = c
    THEN [s EXCEPT ![Len(s)] = Run(c, s[Len(s)].n + 1)]
    ELSE Append(s, Run(c, 1))

\* s + t
Concat(s, t) ==
    IF Len(s) > 0 /\ Len(t) > 0 /\ s[Len(s)].c = t[1].c
    THEN SubSeq(s, 1, Len(s) - 1) \o <<Run(t[1].c, s[Len(s)].n + t[1].n)>> \o Tail(t)
    ELSE s \o t

RECURSIVE StrLen(_)
StrLen(s) == IF s = << >> THEN 0 ELSE s[1].n + StrLen(Tail(s))

IsSpace(c) == c \in {" ", "\t", "\n"}

\* String.prototype.trim
RECURSIVE TrimStart(_)
TrimStart(s) ==
    IF s # << >> /\ IsSpace(s[1].c) THEN TrimStart(Tail(s)) ELSE s
RECURSIVE TrimEnd(_)
TrimEnd(s) ==
    IF s # << >> /\ IsSpace(s[Len(s)].c) THEN TrimEnd(SubSeq(s, 1, Len(s) - 1)) ELSE s
Trim(s) == TrimEnd(TrimStart(s))

\* s.split(',')[0]: the part of s before its first comma
RECURSIVE BeforeComma(_)
BeforeComma(s) ==
    IF s = << >> \/ s[1].c = "," THEN << >> ELSE <<s[1]>> \o BeforeComma(Tail(s))

\* String(n) for a non-negative integer n
DigitChar(d) == CASE d = 0 -> "0" [] d = 1 -> "1" [] d = 2 -> "2" [] d = 3 -> "3"
                  [] d = 4 -> "4" [] d = 5 -> "5" [] d = 6 -> "6" [] d = 7 -> "7"
                  [] d = 8 -> "8" [] d = 9 -> "9"
RECURSIVE NumToStr(_)
NumToStr(n) ==
    IF n < 10 THEN Chr(DigitChar(n))
    ELSE AppendChar(NumToStr(n \div 10), DigitChar(n % 10))

\* parseInt(s, 10) for a string of decimal digits; -1 stands for NaN
IsDigit(c) == c \in {"0", "1", "2", "3", "4", "5", "6", "7", "8", "9"}
DigitVal(c) == CHOOSE d \in 0..9 : DigitChar(d) = c
RECURSIVE RunVal(_, _, _)
RunVal(acc, d, n) == IF n = 0 THEN acc ELSE RunVal(acc * 10 + d, d, n - 1)
RECURSIVE ParseDigits(_, _)
ParseDigits(acc, s) ==
    IF s = << >> \/ ~IsDigit(s[1].c) THEN acc
    ELSE ParseDigits(RunVal(acc, DigitVal(s[1].c), s[1].n), Tail(s))
ParseInt(s) ==
    LET t == TrimStart(s)
    IN IF t = << >> \/ ~IsDigit(t[1].c) THEN -1 ELSE ParseDigits(0, t)

\* ------------------------------------------------------------- JS values
JsUndefined == [t |-> "undefined", s |-> << >>, n |-> 0]
JsNull == [t |-> "null", s |-> << >>, n |-> 0]
JsNumber(k) == [t |-> "number", s |-> << >>, n |-> k]
JsBool(b) == [t |-> "boolean", s |-> << >>, n |-> IF b THEN 1 ELSE 0]
JsString(s) == [t |-> "string", s |-> s, n |-> 0]
JsObject == [t |-> "object", s |-> << >>, n |-> 0]

\* !!v
Truthy(v) ==
    CASE v.t \in {"undefined", "null"} -> FALSE
      [] v.t \in {"number", "boolean"} -> v.n # 0
      [] v.t = "string" -> v.s # << >>
      [] OTHER -> TRUE

\* a === b
StrictEq(a, b) == a.t = b.t /\ a.s = b.s /\ a.n = b.n

\* a || b
JsOr(a, b) == IF Truthy(a) THEN a ELSE b

\* ------------------------------------------------------- field validation
\* /^[^\s@]+@[^\s@]+\.[^\s@]+$/.test(s): no white space, exactly one "@" with
\* something before it, and after it a "." that is neither the first nor the
\* last character of that part.
AtRuns(s) == {i \in 1..Len(s) : s[i].c = "@"}
EmailRegexTest(s) ==
    /\ \A i \in 1..Len(s) : ~IsSpace(s[i].c)
    /\ Cardinality(AtRuns(s)) = 1
    /\ LET at == CHOOSE i \in AtRuns(s) : TRUE
           dom == SubSeq(s, at + 1, Len(s))
           L == StrLen(dom)
       IN /\ s[at].n = 1
          /\ at > 1
          /\ \E j \in 1..Len(dom) :
                /\ dom[j].c = "."
                /\ LET first == StrLen(SubSeq(dom, 1, j - 1)) + 1
                       last == first + dom[j].n - 1
                       lo == IF first > 2 THEN first ELSE 2
                       hi == IF last < L - 1 THEN last ELSE L - 1
                   IN lo <= hi

Err(text) == [text |-> text, field |-> "", max |-> 0]
ErrExceeds(field, max) == [text |-> "exceeds", field |-> field, max |-> max]
NoError == Err("")

ERR_REQUIRED == Err("All fields are required (name, email, message).")
ERR_TYPES == Err("Invalid field types.")
ERR_EMAIL == Err("Invalid email format.")

\* lines 154-156: a string field is trimmed, any other value is kept as it is
TrimField(v) == IF v.t = "string" THEN JsString(Trim(v.s)) ELSE v

\* faulty variant of ValidateFields: a field of exactly its maximum is refused
ValidateFieldsOffByOne(name, email, message) ==
    IF ~Truthy(name) \/ ~Truthy(email) \/ ~Truthy(message) THEN ERR_REQUIRED
    ELSE IF name.t # "string" \/ email.t # "string" \/ message.t # "string" THEN ERR_TYPES
    ELSE IF StrLen(name.s) >= MAX_NAME THEN ErrExceeds("name", MAX_NAME)
    ELSE IF StrLen(email.s) >= MAX_EMAIL THEN ErrExceeds("email", MAX_EMAIL)
    ELSE IF StrLen(message.s) >= MAX_MESSAGE THEN ErrExceeds("message", MAX_MESSAGE)
    ELSE IF ~EmailRegexTest(email.s) THEN ERR_EMAIL
    ELSE NoError

\* lines 209-240, on the trimmed fields: the first failing check, or NoError
ValidateFields(name, email, message) ==
    IF ~Truthy(name) \/ ~Truthy(email) \/ ~Truthy(message) THEN ERR_REQUIRED
    ELSE IF name.t # "string" \/ email.t # "string" \/ message.t # "string" THEN ERR_TYPES
    ELSE IF StrLen(name.s) > MAX_NAME THEN ErrExceeds("name", MAX_NAME)
    ELSE IF StrLen(email.s) > MAX_EMAIL THEN ErrExceeds("email", MAX_EMAIL)
    ELSE IF StrLen(message.s) > MAX_MESSAGE THEN ErrExceeds("message", MAX_MESSAGE)
    ELSE IF ~EmailRegexTest(email.s) THEN ERR_EMAIL
    ELSE NoError

\* --------------------------------------------------------- origin policy
\* the tokens of a string, one by one
RECURSIVE Expand(_)
Expand(s) ==
    IF s = << >> THEN << >>
    ELSE IF s[1].n = 1 THEN <<s[1].c>> \o Expand(Tail(s))
    ELSE <<s[1].c>> \o Expand(<<Run(s[1].c, s[1].n - 1)>> \o Tail(s))
\* the string made of the tokens q
RECURSIVE FromTokens(_)
FromTokens(q) ==
    IF q = << >> THEN EmptyStr
    ELSE AppendChar(FromTokens(SubSeq(q, 1, Len(q) - 1)), q[Len(q)])

\* String.prototype.endsWith
EndsWith(s, suffix) ==
    LET a == Expand(s)
        b == Expand(suffix)
    IN /\ Len(b) <= Len(a)
       /\ SubSeq(a, Len(a) - Len(b) + 1, Len(a)) = b

\* the first position of q that holds one of the tokens in T, or Len(q) + 1
RECURSIVE IndexOf(_, _, _)
IndexOf(q, T, i) ==
    IF i > Len(q) \/ q[i] \in T THEN i ELSE IndexOf(q, T, i + 1)
\* the last position of q that holds the token c, or 0
RECURSIVE LastIndexOf(_, _, _)
LastIndexOf(q, c, i) ==
    IF i = 0 \/ q[i] = c THEN i ELSE LastIndexOf(q, c, i - 1)

SchemeTokens == {"http", "https", "ftp"}
InvalidUrl == [ok |-> FALSE, protocol |-> EmptyStr, hostname |-> EmptyStr]

\* new URL(s) for an absolute URL with one of the schemes above:
\* scheme "://" [userinfo "@"] host [":" port] ["/" path].  The constructor
\* throws (ok = FALSE) without such a scheme, with an empty host and with a
\* port that is not a number; protocol is the scheme with its colon, hostname
\* the host without userinfo, port and path.
UrlParse(s) ==
    LET q == Expand(s)
    IN IF Len(q) < 2 \/ q[1] \notin SchemeTokens \/ q[2] # "://" THEN InvalidUrl
       ELSE LET rest == SubSeq(q, 3, Len(q))
                authority == SubSeq(rest, 1, IndexOf(rest, {"/", "?", "#"}, 1) - 1)
                at == LastIndexOf(authority, "@", Len(authority))
                hostport == SubSeq(authority, at + 1, Len(authority))
                colon == IndexOf(hostport, {":"}, 1)
                host == SubSeq(hostport, 1, colon - 1)
                port == SubSeq(hostport, colon + 1, Len(hostport))
            IN IF host = << >> \/ \E i \in 1..Len(port) : ~IsDigit(port[i])
               THEN InvalidUrl
               ELSE [ok |-> TRUE,
                     protocol |-> FromTokens(<<q[1], ":">>),
                     hostname |-> FromTokens(host)]

\* line 30
DEFAULT_ORIGIN == FromTokens(<<"https", "://", "twistan", ".", "com">>)

\* lines 42-53; origin is what headers.get('Origin') gives: null or a string
isAllowedOrigin(origin) ==
    IF ~Truthy(origin) THEN FALSE
    ELSE LET url == UrlParse(origin.s)
         IN IF ~url.ok THEN FALSE
            ELSE IF url.hostname = Chr("localhost") THEN TRUE
            ELSE IF url.protocol = FromTokens(<<"https", ":">>)
                    /\ EndsWith(url.hostname, FromTokens(<<"twistan", ".", "com">>)) THEN TRUE
            ELSE IF url.protocol = FromTokens(<<"https", ":">>)
                    /\ EndsWith(url.hostname, FromTokens(<<".", "pages", ".", "dev">>)) THEN TRUE
            ELSE FALSE

NoCorsHeaders ==
    [allowOrigin |-> EmptyStr, contentType |-> "", vary |-> "",
     allowMethods |-> "", allowHeaders |-> "", maxAge |-> ""]
\* lines 64-71
getCorsHeaders(headers) ==
    [NoCorsHeaders EXCEPT !.allowOrigin = IF isAllowedOrigin(headers.origin)
                                          THEN headers.origin.s ELSE DEFAULT_ORIGIN,
                          !.contentType = "application/json",
                          !.vary = "Origin"]
\* lines 77-89: the headers of the preflight response
OptionsHeaders(headers) ==
    LET origin == headers.origin
        allowedOrigin == IF isAllowedOrigin(origin) THEN origin.s ELSE DEFAULT_ORIGIN
    IN
    [NoCorsHeaders EXCEPT !.allowOrigin = allowedOrigin,
                          !.allowMethods = "POST, OPTIONS",
                          !.allowHeaders = "Content-Type",
                          !.maxAge = "86400",
                          !.vary = "Origin"]

\* Origin header values: none, the three shapes, and near misses
O_Localhost == FromTokens(<<"http", "://", "localhost">>)
O_LocalhostPort == FromTokens(<<"http", "://", "localhost", ":", "5", "1", "7", "3">>)
O_LocalhostHttps == FromTokens(<<"https", "://", "localhost">>)
O_LocalhostFtp == FromTokens(<<"ftp", "://", "localhost">>)
O_Production == FromTokens(<<"https", "://", "twistan", ".", "com">>)
O_ProductionWww == FromTokens(<<"https", "://", "www", ".", "twistan", ".", "com">>)
O_ProductionHttp == FromTokens(<<"http", "://", "twistan", ".", "com">>)
O_EvilTwistan == FromTokens(<<"https", "://", "evil", "twistan", ".", "com">>)
O_TwistanInside == FromTokens(<<"https", "://", "twistan", ".", "com", ".", "evil", ".", "example">>)
O_Pages == FromTokens(<<"https", "://", "abc123", ".", "pages", ".", "dev">>)
O_PagesHttp == FromTokens(<<"http", "://", "abc123", ".", "pages", ".", "dev">>)
O_PagesBare == FromTokens(<<"https", "://", "pages", ".", "dev">>)
O_EvilPages == FromTokens(<<"https", "://", "evil", "pages", ".", "dev">>)
O_Evil == FromTokens(<<"https", "://", "evil", ".", "example">>)
O_NotUrl == FromTokens(<<"not-a-url">>)
O_NoHost == FromTokens(<<"https", "://">>)
O_BadPort == FromTokens(<<"http", "://", "localhost", ":", "x">>)
O_Star == Chr("*")

Origins ==
    {JsNull, JsString(EmptyStr)}
    \cup { JsString(o) : o \in
             {O_Localhost, O_LocalhostPort, O_LocalhostHttps, O_LocalhostFtp,
              O_Production, O_ProductionWww, O_ProductionHttp, O_EvilTwistan,
              O_TwistanInside, O_Pages, O_PagesHttp, O_PagesBare, O_EvilPages,
              O_Evil, O_NotUrl, O_NoHost, O_BadPort, O_Star} }

\* ---------------------------------------------------------------- inputs
S_Ada == <<Run("A", 1), Run("d", 1), Run("a", 1)>>
S_AdaPadded == <<Run(" ", 2)>> \o S_Ada \o <<Run(" ", 1)>>
S_Email == <<Run("a", 3), Run("@", 1), Run("e", 1), Run(".", 1), Run("c", 2)>>
S_NoAt == <<Run("a", 3), Run(".", 1), Run("c", 2)>>
S_Hi == <<Run("H", 1), Run("i", 1)>>
S_Blank == <<Run(" ", 3)>>
S_Quoted == <<Run("a", 1), Run("\"", 2), Run("\\", 1), Run(" ", 1), Run("b", 1), Run(" ", 2)>>
S_Token == <<Run("X", 4)>>
S_Ip1 == Chr("ip1")
S_Ip2 == Chr("ip2")
S_Xff == <<Run("ip2", 1), Run(",", 1), Run(" ", 1), Run("ip3", 1)>>
S_Unknown == Chr("unknown")
S_True == <<Run("t", 1), Run("r", 1), Run("u", 1), Run("e", 1)>>
S_TrueUpper == <<Run("T", 1), Run("R", 1), Run("U", 1), Run("E", 1)>>
S_Secret == Chr("secret")

\* a parsed JSON object with the four properties the handler reads
Body(name, email, message, token) ==
    [kind |-> "object", name |-> name, email |-> email, message |-> message,
     token |-> token]
\* request.json() rejects ("unparseable"), or resolves to null, or to a value
\* without properties (a number)
OtherBody(kind) ==
    [kind |-> kind, name |-> JsUndefined, email |-> JsUndefined,
     message |-> JsUndefined, token |-> JsUndefined]

ValidBody == Body(JsString(S_AdaPadded), JsString(S_Email), JsString(S_Hi), JsString(S_Token))

BadNames == {JsUndefined, JsNumber(7), JsString(<<Run("n", MAX_NAME + 1)>>)}
BadEmails == {JsString(S_NoAt)}
BadTokens == {JsUndefined, JsString(EmptyStr)}

Bodies ==
    {ValidBody, [ValidBody EXCEPT !.message = JsString(S_Quoted)]}
    \cup {[ValidBody EXCEPT !.name = v] : v \in BadNames}
    \cup {[ValidBody EXCEPT !.email = v] : v \in BadEmails}
    \cup {[ValidBody EXCEPT !.token = v] : v \in BadTokens}
    \cup {OtherBody(k) : k \in {"unparseable", "null", "number"}}

\* the CF-Connecting-IP, X-Forwarded-For and Origin headers: headers.get gives
\* null for a header the request does not carry
Headers ==
    { [cf |-> JsString(S_Ip1), xff |-> JsNull, origin |-> JsString(O_Production)] }

Requests == [headers : Headers, body : Bodies]

\* the requests and the deployments of the concurrent specification: a valid
\* body, one the Field Validator refuses and one without a token; a secret,
\* the bypass, or neither, with the namespace bound
ConcBodies ==
    {ValidBody, [ValidBody EXCEPT !.email = JsString(S_NoAt)],
     [ValidBody EXCEPT !.token = JsString(EmptyStr)]}
ConcRequests == [headers : Headers, body : ConcBodies]

\* context.env: the secret, the override flag, and whether the KV namespace
\* CONTACT_SUBMISSIONS is bound; with it the time zone of the runtime, as the
\* offset of its local time from UTC (0 on Cloudflare's runtime)
Envs ==
    [secret : {JsString(S_Secret)}, skip : {JsUndefined, JsString(S_True)}, kvBound : BOOLEAN,
     tz : {0}]
    \cup [secret : {JsUndefined},
          skip : {JsUndefined, JsString(S_True), JsString(S_TrueUpper), JsBool(TRUE)},
          kvBound : BOOLEAN, tz : {0}]

ConcEnvs ==
    { [secret |-> JsString(S_Secret), skip |-> JsUndefined, kvBound |-> TRUE, tz |-> 0],
      [secret |-> JsUndefined, skip |-> JsString(S_True), kvBound |-> TRUE, tz |-> 0],
      [secret |-> JsUndefined, skip |-> JsUndefined, kvBound |-> TRUE, tz |-> 0] }

\* what the verification service answers: verifyResponse.json() rejects
\* ("throws"), resolves to null, or to {success, "error-codes"}
VerifyResult(kind, success, codes) == [kind |-> kind, success |-> success, codes |-> codes]
NoVerifyResult == VerifyResult("none", JsUndefined, "")
VerifyResults ==
    { VerifyResult("throws", JsUndefined, ""),
      VerifyResult("null", JsUndefined, ""),
      VerifyResult("object", JsBool(TRUE), ""),
      VerifyResult("object", JsBool(FALSE), "invalid-input-response"),
      VerifyResult("object", JsBool(FALSE), "timeout-or-duplicate"),
      VerifyResult("object", JsUndefined, "") }

\* the answers of the concurrent specification: success, refusal, unreadable
ConcVerifyResults ==
    { VerifyResult("throws", JsUndefined, ""),
      VerifyResult("object", JsBool(TRUE), ""),
      VerifyResult("object", JsBool(FALSE), "invalid-input-response") }

\* ----------------------------------------------------------------- state
VARIABLES
    env,        \* context.env of the deployment
    now,        \* the clock, in ticks
    kv,         \* the KV namespace: key -> [value, exp]
    slot,       \* the invocations of onRequestPost, in flight or returned
    started,    \* invocations started so far (the source of fresh UUIDs)
    ledger      \* history: per rate-limit key, what the requests counted under it did

vars == <<env, now, kv, slot, started, ledger>>

Slots == 1..NumSlots

\* ------------------------------------------------------------ responses
NoHeader == EmptyStr
Response(status, success, text, retryAfter, hRetry, hLimit, hRemaining) ==
    [status |-> status,
     body |-> [success |-> success, text |-> text, retryAfter |-> retryAfter],
     hdr |-> [retryAfter |-> hRetry, rlLimit |-> hLimit, rlRemaining |-> hRemaining]]
ErrorResponse(status, err) == Response(status, FALSE, err, 0, NoHeader, NoHeader, NoHeader)
NoResponse == Response(0, FALSE, NoError, 0, NoHeader, NoHeader, NoHeader)

ERR_NO_TOKEN == Err("Please complete the CAPTCHA verification.")
ERR_CAPTCHA_FAILED == Err("CAPTCHA verification failed. Please try again.")
ERR_CAPTCHA_UNAVAILABLE == Err("Unable to verify CAPTCHA. Please try again later.")
ERR_CONFIG == Err("Server configuration error.")
ERR_RATE_LIMIT == Err("Rate limit exceeded. Please try again later.")
ERR_INTERNAL == Err("Internal server error.")
MSG_RECEIVED == Err("Message received.")

\* lines 161-164
RespNoToken == ErrorResponse(400, ERR_NO_TOKEN)
\* faulty variant of RespCaptchaFailed: the service's error codes are sent back
RespCaptchaFailedEcho(verifyResult) ==
    [status |-> 400,
     body |-> [success |-> FALSE,
               text |-> [ERR_CAPTCHA_FAILED EXCEPT !.field = verifyResult.codes],
               retryAfter |-> 0],
     hdr |-> [retryAfter |-> NoHeader, rlLimit |-> NoHeader, rlRemaining |-> NoHeader]]

\* lines 186-189: the body carries the fixed message only
RespCaptchaFailed(verifyResult) == ErrorResponse(400, ERR_CAPTCHA_FAILED)
\* lines 193-196
RespCaptchaUnavailable == ErrorResponse(503, ERR_CAPTCHA_UNAVAILABLE)
\* lines 203-206
RespConfig == ErrorResponse(503, ERR_CONFIG)
\* faulty variant of RespRateLimited: the Retry-After header is left out
RespRateLimitedBare ==
    Response(429, FALSE, ERR_RATE_LIMIT, WINDOW_HOURS * SecondsPerHour,
             NoHeader, NumToStr(MAX_REQUESTS), Chr("0"))
\* lines 245-260
RespRateLimited ==
    Response(429, FALSE, ERR_RATE_LIMIT, WINDOW_HOURS * SecondsPerHour,
             NumToStr(WINDOW_HOURS * SecondsPerHour), NumToStr(MAX_REQUESTS), Chr("0"))
\* lines 279-289
RespSuccess(remaining) ==
    Response(200, TRUE, MSG_RECEIVED, 0, NoHeader, NumToStr(MAX_REQUESTS), NumToStr(remaining))
\* lines 290-296
RespInternal == ErrorResponse(500, ERR_INTERNAL)

\* ------------------------------------------------------------- KV store
KvKey(prefix, id, ts) == [prefix |-> prefix, id |-> id, ts |-> ts]
NoKey == KvKey("", EmptyStr, 0)

\* lines 104-110: getFullYear, getMonth, getDate and getHours read t in the
\* server's local time, and new Date(y, m, d, h) reads its arguments as local
\* time: the start of the local hour of t, as a time. tz is the offset of the
\* local time from UTC, in ticks.
LocalHourTimestamp(t, tz) ==
    LET local == t + tz
    IN (local - (local % TicksPerHour)) - tz
\* the start of the UTC hour of t: lines 104-110 on a server whose zone is UTC
HourTimestamp(t) == LocalHourTimestamp(t, 0)
\* line 111: `ratelimit_${ip}_${hourTimestamp}`
RateLimitKey(ip, t) == KvKey("ratelimit", ip, HourTimestamp(t))
\* crypto.randomUUID(): a value no other invocation gets
Uuid(rid) == <<Run("u", rid)>>
\* line 265: `contact_${timestamp}_${crypto.randomUUID()}`
ContactKey(t, rid) == KvKey("contact", Uuid(rid), t)

\* line 264: new Date().toISOString() at time t
IsoString(t) == <<Run("T", t + 1)>>

\* JSON.stringify of a string: quotes and backslashes are escaped
EscapeRun(r) ==
    IF r.c = "\"" THEN <<Run("\\\"", r.n)>>
    ELSE IF r.c = "\\" THEN <<Run("\\\\", r.n)>>
    ELSE <<r>>
RECURSIVE Escape(_)
Escape(s) == IF s = << >> THEN << >> ELSE Concat(EscapeRun(s[1]), Escape(Tail(s)))
JsonString(s) == Concat(Concat(Chr("\""), Escape(s)), Chr("\""))
\* lines 266-271: JSON.stringify({name, email, message, submittedAt: timestamp})
SubmissionValue(name, email, message, t) ==
    Chr("{") \o Chr("name:") \o JsonString(name) \o Chr(",")
        \o Chr("email:") \o JsonString(email) \o Chr(",")
        \o Chr("message:") \o JsonString(message) \o Chr(",")
        \o Chr("submittedAt:") \o JsonString(IsoString(t)) \o Chr("}")

\* kv.get(key): the stored string, or null
KvGet(store, key) == IF key \in DOMAIN store THEN JsString(store[key].value) ELSE JsNull
\* kv.put(key, value, {expirationTtl}) at time t; ttl 0 stands for no expiry
TtlTicks(ttl) == (ttl * TicksPerHour) \div SecondsPerHour
KvPut(store, key, value, ttl, t) ==
    LET entry == [value |-> value, exp |-> IF ttl = 0 THEN 0 ELSE t + TtlTicks(ttl)]
    IN [k \in DOMAIN store \cup {key} |-> IF k = key THEN entry ELSE store[k]]
\* the store drops the keys whose time to live is over
KvExpire(store, t) ==
    [k \in {j \in DOMAIN store : store[j].exp = 0 \/ store[j].exp > t} |-> store[k]]

\* ------------------------------------------------------- onRequestPost
NoRequest ==
    [headers |-> [cf |-> JsNull, xff |-> JsNull, origin |-> JsNull],
     body |-> OtherBody("none")]
NoRateLimit == [allowed |-> FALSE, remaining |-> 0]

\* an invocation: its position (pc), its request, its local variables, the
\* calls it has made and the checks it has passed so far (log), its response
Idle ==
    [pc |-> "idle", rid |-> 0, req |-> NoRequest,
     clientIP |-> EmptyStr, name |-> JsUndefined, email |-> JsUndefined,
     message |-> JsUndefined, token |-> JsUndefined,
     verify |-> NoVerifyResult,
     key |-> NoKey, count |-> 0, putKey |-> NoKey, putValue |-> EmptyStr, putTtl |-> 0,
     rl |-> NoRateLimit, log |-> << >>, resp |-> NoResponse,
     corsHeaders |-> NoCorsHeaders, respHeaders |-> NoCorsHeaders]

Log(c, event) == [c EXCEPT !.log = Append(@, event)]
\* return new Response(...)
\* new Response(body, {status, headers: corsHeaders}), or {...corsHeaders, ...}
Respond(c, resp) == [c EXCEPT !.pc = "done", !.resp = resp, !.respHeaders = c.corsHeaders]

\* faulty variant of VerifyFailed: a failed call is reported like a failed verification
VerifyFailedAsRejected(c) == Respond(c, ErrorResponse(400, ERR_CAPTCHA_FAILED))

\* faulty variant of VerifyFailed: a failed call is made a second time
VerifyRetriedOnce(c) ==
    IF Len(SelectSeq(c.log, LAMBDA e : e = "fetch")) < 2
    THEN Log([c EXCEPT !.pc = "awaitFetch"], "fetch")
    ELSE Respond(c, RespCaptchaUnavailable)

\* lines 191-197: the catch around the verification call
VerifyFailed(c) == Respond(c, RespCaptchaUnavailable)

\* faulty variant of Caught: the error is swallowed and the request succeeds
CaughtSwallowed(c) == Respond(c, RespSuccess(c.rl.remaining))

\* faulty variant of Caught: the 500 response is sent without the CORS headers
CaughtBare(c) == [c EXCEPT !.pc = "done", !.resp = RespInternal]

\* lines 290-296: the catch around the whole handler
Caught(c) == Respond(c, RespInternal)

\* faulty variant of onRequestOptions: the Origin is echoed whatever it is
onRequestOptionsEcho(headers, rid) ==
    [Idle EXCEPT !.pc = "done", !.rid = rid,
                 !.req = [headers |-> headers, body |-> OtherBody("none")],
                 !.log = <<"options">>,
                 !.resp = [NoResponse EXCEPT !.status = 204],
                 !.respHeaders = [OptionsHeaders(headers) EXCEPT
                                     !.allowOrigin = headers.origin.s]]

\* lines 76-90: the preflight response, 204 without a body
onRequestOptions(headers, rid) ==
    [Idle EXCEPT !.pc = "done", !.rid = rid,
                 !.req = [headers |-> headers, body |-> OtherBody("none")],
                 !.log = <<"options">>,
                 !.resp = [NoResponse EXCEPT !.status = 204],
                 !.respHeaders = OptionsHeaders(headers)]

\* faulty variant of ClientIP: X-Forwarded-For is preferred to CF-Connecting-IP
ClientIPForwardedFirst(headers) ==
    LET xff == IF headers.xff.t = "string"
               THEN JsString(BeforeComma(headers.xff.s)) ELSE JsUndefined
    IN JsOr(JsOr(xff, headers.cf), JsString(S_Unknown)).s

\* lines 147-150
ClientIP(headers) ==
    LET xff == IF headers.xff.t = "string"
               THEN JsString(BeforeComma(headers.xff.s)) ELSE JsUndefined
    IN JsOr(JsOr(headers.cf, xff), JsString(S_Unknown)).s

\* lines 263-289: the Store stage, entered at time t
StoreSubmission(c, E, t) ==
    IF E.kvBound
    THEN Log([c EXCEPT !.pc = "awaitKvPutSub",
                       !.putKey = ContactKey(t, c.rid),
                       !.putValue = SubmissionValue(c.name.s, c.email.s, c.message.s, t),
                       !.putTtl = 0], "kvPutSub")
    ELSE Respond(c, RespSuccess(c.rl.remaining))

\* faulty variant of AfterRateLimit: the result of checkRateLimit is not looked at
AfterRateLimitIgnored(c, E, t) ==
    StoreSubmission(Log(c, IF c.rl.allowed THEN "rlAllowed" ELSE "rlDenied"), E, t)

\* lines 243-261: checkRateLimit has returned c.rl
AfterRateLimit(c, E, t) ==
    IF ~c.rl.allowed
    THEN Respond(Log(c, "rlDenied"), RespRateLimited)
    ELSE StoreSubmission(Log(c, "rlAllowed"), E, t)

\* faulty variant of CheckRateLimit: one counter for all identities
CheckRateLimitSharedKey(c, E, t) ==
    IF ~E.kvBound
    THEN AfterRateLimit([c EXCEPT !.rl = [allowed |-> TRUE, remaining |-> MAX_REQUESTS]], E, t)
    ELSE Log([c EXCEPT !.pc = "awaitKvGet",
                       !.key = KvKey("ratelimit", S_Unknown, LocalHourTimestamp(t, E.tz))],
             "kvGet")

\* lines 101-113: checkRateLimit up to its kv.get
CheckRateLimit(c, E, t) ==
    IF ~E.kvBound
    THEN AfterRateLimit([c EXCEPT !.rl = [allowed |-> TRUE, remaining |-> MAX_REQUESTS]], E, t)
    ELSE Log([c EXCEPT !.pc = "awaitKvGet",
                       !.key = KvKey("ratelimit", c.clientIP, LocalHourTimestamp(t, E.tz))],
             "kvGet")

\* faulty variant of CountToStr: the count is written back as it was read
CountNotIncremented(count) == IF count = -1 THEN Chr("NaN") ELSE NumToStr(count)

\* String(currentCount + 1); parseInt gives NaN (-1 here) for a value without digits
CountToStr(count) == IF count = -1 THEN Chr("NaN") ELSE NumToStr(count + 1)

\* faulty variant of CheckRateLimitCount: the limit is compared with > instead of >=
CheckRateLimitCountOffByOne(c, got, E, t) ==
    LET currentCount == ParseInt(JsOr(got, JsString(Chr("0"))).s)
        d == [c EXCEPT !.count = currentCount]
    IN IF currentCount > MAX_REQUESTS
       THEN AfterRateLimit([d EXCEPT !.rl = [allowed |-> FALSE, remaining |-> 0]], E, t)
       ELSE Log([d EXCEPT !.pc = "awaitKvPutCount",
                          !.putKey = c.key,
                          !.putValue = CountToStr(currentCount),
                          !.putTtl = WINDOW_HOURS * SecondsPerHour], "kvPutCount")

\* faulty variant of CheckRateLimitCount: the count is raised by two
CheckRateLimitCountTwice(c, got, E, t) ==
    LET currentCount == ParseInt(JsOr(got, JsString(Chr("0"))).s)
        d == [c EXCEPT !.count = currentCount]
    IN IF currentCount >= MAX_REQUESTS
       THEN AfterRateLimit([d EXCEPT !.rl = [allowed |-> FALSE, remaining |-> 0]], E, t)
       ELSE Log([d EXCEPT !.pc = "awaitKvPutCount",
                          !.putKey = c.key,
                          !.putValue = NumToStr(currentCount + 2),
                          !.putTtl = WINDOW_HOURS * SecondsPerHour], "kvPutCount")

\* lines 113-123: kv.get has given `got`
CheckRateLimitCount(c, got, E, t) ==
    LET currentCount == ParseInt(JsOr(got, JsString(Chr("0"))).s)
        d == [c EXCEPT !.count = currentCount]
    IN IF currentCount >= MAX_REQUESTS
       THEN AfterRateLimit([d EXCEPT !.rl = [allowed |-> FALSE, remaining |-> 0]], E, t)
       ELSE Log([d EXCEPT !.pc = "awaitKvPutCount",
                          !.putKey = c.key,
                          !.putValue = CountToStr(currentCount),
                          !.putTtl = WINDOW_HOURS * SecondsPerHour], "kvPutCount")

\* faulty variant of CheckRateLimitReturn: the request itself is not subtracted
CheckRateLimitReturnStale(c, E, t) ==
    AfterRateLimit(
        [c EXCEPT !.rl = [allowed |-> TRUE, remaining |-> MAX_REQUESTS - c.count]], E, t)

\* line 123: the counter is written
CheckRateLimitReturn(c, E, t) ==
    AfterRateLimit(
        [c EXCEPT !.rl = [allowed |-> TRUE, remaining |-> MAX_REQUESTS - c.count - 1]], E, t)

\* faulty variant of ValidateAndContinue: the Rate Limiter runs before the fields are
\* validated
ValidateAfterRateLimit(c, E, t) ==
    LET err == ValidateFields(c.name, c.email, c.message)
        d == CheckRateLimit(c, E, t)
    IN IF err # NoError /\ d.pc = "done"
       THEN Respond(c, ErrorResponse(400, err))
       ELSE IF err = NoError THEN CheckRateLimit(Log(c, "validated"), E, t) ELSE d

\* lines 209-243: the Field Validator, then the Rate Limiter
ValidateAndContinue(c, E, t) ==
    LET err == ValidateFields(c.name, c.email, c.message)
    IN IF err # NoError
       THEN Respond(c, ErrorResponse(400, err))
       ELSE CheckRateLimit(Log(c, "validated"), E, t)

\* the code after the Bot Verifier block (lines 158-207), reached when it passed
AfterVerifyBot(c, E, t) == ValidateAndContinue(Log(c, "verified"), E, t)

\* lines 182-190: verifyResponse.json() has given v
VerifyResultReceived(c, v, E, t) ==
    IF v.kind \in {"throws", "null"}
    THEN VerifyFailed([c EXCEPT !.verify = v])
    ELSE IF ~Truthy(v.success)
    THEN Respond([c EXCEPT !.verify = v], RespCaptchaFailed(v))
    ELSE AfterVerifyBot([c EXCEPT !.verify = v], E, t)

\* faulty variant of VerifyBot: without a secret the request is let through
VerifyBotFailOpen(c, E, t) ==
    IF ~Truthy(c.token) THEN Respond(c, RespNoToken)
    ELSE IF Truthy(E.secret) THEN Log([c EXCEPT !.pc = "awaitFetch"], "fetch")
    ELSE AfterVerifyBot(Log(c, "bypass"), E, t)

\* faulty variant of VerifyBot: any truthy SKIP_CAPTCHA bypasses the verification
VerifyBotTruthyFlag(c, E, t) ==
    IF ~Truthy(c.token) THEN Respond(c, RespNoToken)
    ELSE IF Truthy(E.secret) THEN Log([c EXCEPT !.pc = "awaitFetch"], "fetch")
    ELSE IF Truthy(E.skip) THEN AfterVerifyBot(Log(c, "bypass"), E, t)
    ELSE Respond(c, RespConfig)

\* faulty variant of VerifyBot: the secret is looked at before the token
VerifyBotSecretFirst(c, E, t) ==
    IF Truthy(E.secret) THEN Log([c EXCEPT !.pc = "awaitFetch"], "fetch")
    ELSE IF ~Truthy(c.token) THEN Respond(c, RespNoToken)
    ELSE IF StrictEq(E.skip, JsString(S_True)) THEN AfterVerifyBot(Log(c, "bypass"), E, t)
    ELSE Respond(c, RespConfig)

\* faulty variant of VerifyBot: the override flag is looked at before the secret
VerifyBotFlagFirst(c, E, t) ==
    IF ~Truthy(c.token) THEN Respond(c, RespNoToken)
    ELSE IF StrictEq(E.skip, JsString(S_True)) THEN AfterVerifyBot(Log(c, "bypass"), E, t)
    ELSE IF Truthy(E.secret) THEN Log([c EXCEPT !.pc = "awaitFetch"], "fetch")
    ELSE Respond(c, RespConfig)

\* lines 158-207: the Bot Verifier up to its fetch
VerifyBot(c, E, t) ==
    IF ~Truthy(c.token) THEN Respond(c, RespNoToken)
    ELSE IF Truthy(E.secret) THEN Log([c EXCEPT !.pc = "awaitFetch"], "fetch")
    ELSE IF StrictEq(E.skip, JsString(S_True)) THEN AfterVerifyBot(Log(c, "bypass"), E, t)
    ELSE Respond(c, RespConfig)

\* faulty variant of ParseBody: a null body is read like a body without properties
ParseBodyNullSafe(r, rid, E, t) ==
    LET c == [Idle EXCEPT !.rid = rid, !.req = r,
                          !.corsHeaders = getCorsHeaders(r.headers),
                          !.clientIP = ClientIP(r.headers)]
    IN IF r.body.kind = "unparseable"
       THEN Caught(c)
       ELSE VerifyBot(Log([c EXCEPT !.name = TrimField(r.body.name),
                                    !.email = TrimField(r.body.email),
                                    !.message = TrimField(r.body.message),
                                    !.token = r.body.token], "parsed"), E, t)

\* lines 144-156: request.json() rejects, or `body.name` throws on null; both
\* reach the catch of line 290
ParseBody(r, rid, E, t) ==
    LET c == [Idle EXCEPT !.rid = rid, !.req = r,
                          !.corsHeaders = getCorsHeaders(r.headers),
                          !.clientIP = ClientIP(r.headers)]
    IN IF r.body.kind \in {"unparseable", "null"}
       THEN Caught(c)
       ELSE VerifyBot(Log([c EXCEPT !.name = TrimField(r.body.name),
                                    !.email = TrimField(r.body.email),
                                    !.message = TrimField(r.body.message),
                                    !.token = r.body.token], "parsed"), E, t)

\* --------------------------------------------------------------- history
\* ledger[k].allowed: requests checkRateLimit has allowed under key k;
\* ledger[k].denied: requests checkRateLimit has refused under key k;
\* ledger[k].base: the count under k before the first request of the run;
\* ledger[k].stored: Submissions written by requests counted under k;
\* ledger[k].late: some read of k was served after the end of k's hour
NoEntry == [allowed |-> 0, denied |-> 0, stored |-> 0, late |-> FALSE, base |-> 0]
Entry(l, k) == IF k \in DOMAIN l THEN l[k] ELSE NoEntry
Record(l, k, e) == [j \in DOMAIN l \cup {k} |-> IF j = k THEN e ELSE l[j]]
NoteAllowed(l, k) == Record(l, k, [Entry(l, k) EXCEPT !.allowed = @ + 1])
NoteStored(l, k) == Record(l, k, [Entry(l, k) EXCEPT !.stored = @ + 1])
NoteRead(l, k, t) ==
    IF HourTimestamp(t) = k.ts THEN l ELSE Record(l, k, [Entry(l, k) EXCEPT !.late = TRUE])
NoteDenied(l, k, c) ==
    IF c.pc = "done" THEN Record(l, k, [Entry(l, k) EXCEPT !.denied = @ + 1]) ELSE l

InitialLedger(store) ==
    [k \in {j \in DOMAIN store : j.prefix = "ratelimit"} |->
        [NoEntry EXCEPT !.base = ParseInt(store[k].value)]]

\* --------------------------------------------------------------- actions
\* the namespace at the start: empty, or holding the counter that earlier
\* requests of this hour have left one below the limit
InitialStores ==
    { << >>,
      KvPut(<< >>, RateLimitKey(S_Ip1, 0), NumToStr(MAX_REQUESTS - 1),
            WINDOW_HOURS * SecondsPerHour, 0) }

Init ==
    /\ env \in ConcEnvs
    /\ now = 0
    /\ kv \in InitialStores
    /\ slot = [s \in Slots |-> Idle]
    /\ started = 0
    /\ ledger = InitialLedger(kv)

\* a POST out of R arrives, in the lowest free slot, and runs to its first
\* await (or to its response)
ReceiveFrom(s, R, max) ==
    /\ slot[s].pc \in {"idle", "done"}
    /\ \A q \in Slots : q < s => slot[q].pc \notin {"idle", "done"}
    /\ started < max
    /\ \E r \in R :
          slot' = [slot EXCEPT ![s] = ParseBody(r, started + 1, env, now)]
    /\ started' = started + 1
    /\ UNCHANGED <<env, now, kv, ledger>>

Receive(s) == ReceiveFrom(s, ConcRequests, MaxReqs)

\* `await fetch(siteverify)` settles: it rejects (line 191) or gives a response
FetchSettle(s) ==
    /\ slot[s].pc = "awaitFetch"
    /\ \E ok \in BOOLEAN :
          slot' = [slot EXCEPT ![s] =
                      IF ok THEN [@ EXCEPT !.pc = "awaitVerifyJson"]
                            ELSE VerifyFailed(Log(@, "fetchRejected"))]
    /\ UNCHANGED <<env, now, kv, started, ledger>>

\* `await verifyResponse.json()` settles, with one of the answers V
VerifyJsonSettleFrom(s, V) ==
    /\ slot[s].pc = "awaitVerifyJson"
    /\ \E v \in V :
          slot' = [slot EXCEPT ![s] = VerifyResultReceived(@, v, env, now)]
    /\ UNCHANGED <<env, now, kv, started, ledger>>

VerifyJsonSettle(s) == VerifyJsonSettleFrom(s, VerifyResults)
ConcVerifyJsonSettle(s) == VerifyJsonSettleFrom(s, ConcVerifyResults)

\* `await kv.get(key)` settles: it reads, or it rejects (to the catch of line 290)
KvGetAnswered(s) ==
    /\ slot[s].pc = "awaitKvGet"
    /\ slot' = [slot EXCEPT ![s] = CheckRateLimitCount(@, KvGet(kv, @.key), env, now)]
    /\ ledger' = NoteDenied(NoteRead(ledger, slot[s].key, now), slot[s].key, slot'[s])
    /\ UNCHANGED <<env, now, kv, started>>

KvGetRejected(s) ==
    /\ slot[s].pc = "awaitKvGet"
    /\ slot' = [slot EXCEPT ![s] = Caught(Log(@, "kvGetRejected"))]
    /\ UNCHANGED <<env, now, kv, started, ledger>>

KvGetSettle(s) == KvGetAnswered(s) \/ KvGetRejected(s)

\* `await kv.put(key, String(currentCount + 1), ...)` settles: the counter is
\* written, or the call rejects (to the catch of line 290)
KvPutCountAnswered(s) ==
    /\ slot[s].pc = "awaitKvPutCount"
    /\ kv' = KvPut(kv, slot[s].putKey, slot[s].putValue, slot[s].putTtl, now)
    /\ slot' = [slot EXCEPT ![s] = CheckRateLimitReturn(@, env, now)]
    /\ ledger' = NoteAllowed(ledger, slot[s].key)
    /\ UNCHANGED <<env, now, started>>

KvPutCountRejected(s) ==
    /\ slot[s].pc = "awaitKvPutCount"
    /\ slot' = [slot EXCEPT ![s] = Caught(Log(@, "kvPutCountRejected"))]
    /\ UNCHANGED <<env, now, kv, started, ledger>>

KvPutCountSettle(s) == KvPutCountAnswered(s) \/ KvPutCountRejected(s)

\* `await context.env.CONTACT_SUBMISSIONS.put(key, value)` settles
KvPutSubAnswered(s) ==
    /\ slot[s].pc = "awaitKvPutSub"
    /\ kv' = KvPut(kv, slot[s].putKey, slot[s].putValue, slot[s].putTtl, now)
    /\ slot' = [slot EXCEPT ![s] = Respond(Log(@, "stored"), RespSuccess(@.rl.remaining))]
    /\ ledger' = NoteStored(ledger, slot[s].key)
    /\ UNCHANGED <<env, now, started>>

\* faulty variant of KvPutSubRejected: the counter is set back to the count read
KvPutSubRolledBack(s) ==
    /\ slot[s].pc = "awaitKvPutSub"
    /\ slot' = [slot EXCEPT ![s] = Caught(Log(@, "kvPutSubRejected"))]
    /\ kv' = KvPut(kv, slot[s].key, NumToStr(slot[s].count), WINDOW_HOURS * SecondsPerHour, now)
    /\ UNCHANGED <<env, now, started, ledger>>

KvPutSubRejected(s) ==
    /\ slot[s].pc = "awaitKvPutSub"
    /\ slot' = [slot EXCEPT ![s] = Caught(Log(@, "kvPutSubRejected"))]
    /\ UNCHANGED <<env, now, kv, started, ledger>>

KvPutSubSettle(s) == KvPutSubAnswered(s) \/ KvPutSubRejected(s)

\* time passes; the store drops the expired keys
Tick ==
    /\ now < MaxNow
    /\ now' = now + 1
    /\ kv' = KvExpire(kv, now + 1)
    /\ UNCHANGED <<env, slot, started, ledger>>

Next ==
    \/ \E s \in Slots : Receive(s)
    \/ \E s \in Slots : FetchSettle(s)
    \/ \E s \in Slots : ConcVerifyJsonSettle(s)
    \/ \E s \in Slots : KvGetSettle(s)
    \/ \E s \in Slots : KvPutCountSettle(s)
    \/ \E s \in Slots : KvPutSubSettle(s)
    \/ Tick

Spec == Init /\ [][Next]_vars

\* ------------------------------------------------------ origins and CORS
\* POST and OPTIONS requests with every Origin of the model, one at a time;
\* the namespace starts empty or with a counter at the limit
CorsHeaderSets == [cf : {JsString(S_Ip1)}, xff : {JsNull}, origin : Origins]
\* the POST requests carry one Origin of each kind
PostOrigins ==
    {JsNull, JsString(O_LocalhostPort), JsString(O_Pages), JsString(O_EvilTwistan),
     JsString(O_Evil), JsString(O_NotUrl)}
CorsRequests ==
    [headers : {h \in CorsHeaderSets : h.origin \in PostOrigins},
     body : ConcBodies \cup {OtherBody("unparseable")}]
CorsStores ==
    { << >>,
      KvPut(<< >>, RateLimitKey(S_Ip1, 0), NumToStr(MAX_REQUESTS),
            WINDOW_HOURS * SecondsPerHour, 0) }

InitCors ==
    /\ env \in ConcEnvs
    /\ now = 0
    /\ kv \in CorsStores
    /\ slot = [s \in Slots |-> Idle]
    /\ started = 0
    /\ ledger = InitialLedger(kv)

ReceiveCors(s) ==
    /\ \A q \in Slots : slot[q].pc \in {"idle", "done"}
    /\ ReceiveFrom(s, CorsRequests, MaxReqs)

\* an OPTIONS request arrives and is answered at once
Preflight(s) ==
    /\ \A q \in Slots : slot[q].pc \in {"idle", "done"}
    /\ \A q \in Slots : q < s => slot[q].pc \notin {"idle", "done"}
    /\ started < MaxReqs
    /\ \E h \in CorsHeaderSets :
          slot' = [slot EXCEPT ![s] = onRequestOptions(h, started + 1)]
    /\ started' = started + 1
    /\ UNCHANGED <<env, now, kv, ledger>>

NextCors ==
    \/ \E s \in Slots : ReceiveCors(s)
    \/ \E s \in Slots : Preflight(s)
    \/ \E s \in Slots : FetchSettle(s)
    \/ \E s \in Slots : ConcVerifyJsonSettle(s)
    \/ \E s \in Slots : KvGetSettle(s)
    \/ \E s \in Slots : KvPutCountSettle(s)
    \/ \E s \in Slots : KvPutSubSettle(s)
    \/ Tick

SpecCors == InitCors /\ [][NextCors]_vars

\* ------------------------------------------------- one request at a time
\* every body and every deployment of the model, each request started when no
\* other is in flight
InitOne ==
    /\ env \in Envs
    /\ now = 0
    /\ kv \in InitialStores
    /\ slot = [s \in Slots |-> Idle]
    /\ started = 0
    /\ ledger = InitialLedger(kv)

ReceiveOne(s) ==
    /\ \A q \in Slots : slot[q].pc \in {"idle", "done"}
    /\ ReceiveFrom(s, Requests, MaxReqs)

NextOne ==
    \/ \E s \in Slots : ReceiveOne(s)
    \/ \E s \in Slots : FetchSettle(s)
    \/ \E s \in Slots : VerifyJsonSettle(s)
    \/ \E s \in Slots : KvGetSettle(s)
    \/ \E s \in Slots : KvPutCountSettle(s)
    \/ \E s \in Slots : KvPutSubSettle(s)
    \/ Tick

SpecOne == InitOne /\ [][NextOne]_vars

\* ------------------------------------------------ every response is kept
\* requests one at a time, the n-th in slot n, so that the responses of earlier
\* requests stay in the state: one payload the handler refuses, submitted
\* again and again, and a valid one that changes the counter and the stored
\* submissions in between; all within one hour bucket
TwiceSlots == 1..(NumSlots + 1)
TwiceBodies ==
    {ValidBody,
     [ValidBody EXCEPT !.email = JsString(S_NoAt)],
     [ValidBody EXCEPT !.name = JsNumber(7)],
     [ValidBody EXCEPT !.token = JsString(EmptyStr)],
     OtherBody("unparseable")}
TwiceRequests == [headers : Headers, body : TwiceBodies]

InitTwice ==
    /\ env \in ConcEnvs
    /\ now = 0
    /\ kv \in InitialStores
    /\ slot = [s \in TwiceSlots |-> Idle]
    /\ started = 0
    /\ ledger = InitialLedger(kv)

ReceiveTwice(s) ==
    /\ s = started + 1
    /\ \A q \in TwiceSlots : slot[q].pc \in {"idle", "done"}
    /\ \E r \in TwiceRequests :
          /\ \/ r.body = ValidBody
             \/ \A q \in TwiceSlots :
                   slot[q].pc = "done" => slot[q].req.body \in {ValidBody, r.body}
          /\ slot' = [slot EXCEPT ![s] = ParseBody(r, started + 1, env, now)]
    /\ started' = started + 1
    /\ UNCHANGED <<env, now, kv, ledger>>

NextTwice ==
    \/ \E s \in TwiceSlots : ReceiveTwice(s)
    \/ \E s \in TwiceSlots : FetchSettle(s)
    \/ \E s \in TwiceSlots : ConcVerifyJsonSettle(s)
    \/ \E s \in TwiceSlots : KvGetSettle(s)
    \/ \E s \in TwiceSlots : KvPutCountSettle(s)
    \/ \E s \in TwiceSlots : KvPutSubSettle(s)

SpecTwice == InitTwice /\ [][NextTwice]_vars

\* ------------------------------------------------- the fields of a body
\* one request at a time, over bodies whose fields are absent, empty, of
\* another type than string, at their maximum length or one character beyond
\* it; verification passes (by the service or by the bypass), and the bucket
\* is empty or already at the limit
LongName(n) == JsString(<<Run("n", n)>>)
LongEmail(n) == JsString(<<Run("a", n - 5), Run("@", 1), Run("e", 1), Run(".", 1), Run("c", 2)>>)
LongMessage(n) == JsString(<<Run("m", n)>>)
NonStrings == {JsNull, JsNumber(0), JsNumber(7), JsBool(FALSE), JsBool(TRUE), JsObject}
Missings == {JsUndefined, JsString(EmptyStr), JsString(S_Blank)}
FieldBodies ==
    {ValidBody}
    \cup {[ValidBody EXCEPT !.name = v] :
             v \in NonStrings \cup Missings
                   \cup {LongName(MAX_NAME), LongName(MAX_NAME + 1),
                         JsString(<<Run(" ", 2), Run("n", MAX_NAME), Run(" ", 1)>>)}}
    \cup {[ValidBody EXCEPT !.email = v] :
             v \in {JsNumber(0), JsObject, JsUndefined,
                    LongEmail(MAX_EMAIL), LongEmail(MAX_EMAIL + 1),
                    JsString(<<Run("a", MAX_EMAIL + 1)>>)}}
    \cup {[ValidBody EXCEPT !.message = v] :
             v \in {JsBool(FALSE), JsNumber(7), JsString(S_Blank),
                    LongMessage(MAX_MESSAGE), LongMessage(MAX_MESSAGE + 1)}}
    \cup {[ValidBody EXCEPT !.name = LongName(MAX_NAME + 1), !.email = JsString(S_NoAt)],
          [ValidBody EXCEPT !.name = LongName(MAX_NAME + 1),
                            !.message = LongMessage(MAX_MESSAGE + 1)],
          [ValidBody EXCEPT !.email = LongEmail(MAX_EMAIL + 1),
                            !.message = LongMessage(MAX_MESSAGE + 1)],
          [ValidBody EXCEPT !.name = JsNumber(7), !.email = JsString(EmptyStr)]}
FieldRequests == [headers : Headers, body : FieldBodies]
FieldEnvs ==
    { [secret |-> JsString(S_Secret), skip |-> JsUndefined, kvBound |-> TRUE, tz |-> 0],
      [secret |-> JsUndefined, skip |-> JsString(S_True), kvBound |-> TRUE, tz |-> 0] }

InitFields ==
    /\ env \in FieldEnvs
    /\ now = 0
    /\ kv \in CorsStores
    /\ slot = [s \in Slots |-> Idle]
    /\ started = 0
    /\ ledger = InitialLedger(kv)

ReceiveFields(s) ==
    /\ \A q \in Slots : slot[q].pc \in {"idle", "done"}
    /\ ReceiveFrom(s, FieldRequests, MaxReqs)

NextFields ==
    \/ \E s \in Slots : ReceiveFields(s)
    \/ \E s \in Slots : FetchSettle(s)
    \/ \E s \in Slots : ConcVerifyJsonSettle(s)
    \/ \E s \in Slots : KvGetSettle(s)
    \/ \E s \in Slots : KvPutCountSettle(s)
    \/ \E s \in Slots : KvPutSubSettle(s)

SpecFields == InitFields /\ [][NextFields]_vars

\* ------------------------------------------------- the client identity
\* valid requests, verification bypassed, one at a time, whose
\* CF-Connecting-IP and X-Forwarded-For headers are absent, empty or set
S_XffEmptyFirst == <<Run(",", 1), Run("ip3", 1)>>
IdentHeaders ==
    [cf : {JsNull, JsString(EmptyStr), JsString(S_Ip1)},
     xff : {JsNull, JsString(EmptyStr), JsString(S_Ip2), JsString(S_Xff),
            JsString(S_XffEmptyFirst)},
     origin : {JsString(O_Production)}]
IdentRequests == [headers : IdentHeaders, body : {ValidBody}]

IdentEnvs == [secret : {JsUndefined}, skip : {JsString(S_True)}, kvBound : {TRUE}, tz : {0}]

InitIdent ==
    /\ env \in IdentEnvs
    /\ now = 0
    /\ kv = << >>
    /\ slot = [s \in Slots |-> Idle]
    /\ started = 0
    /\ ledger = InitialLedger(kv)

ReceiveIdent(s) ==
    /\ \A q \in Slots : slot[q].pc \in {"idle", "done"}
    /\ ReceiveFrom(s, IdentRequests, MaxReqs)

NextIdent ==
    \/ \E s \in Slots : ReceiveIdent(s)
    \/ \E s \in Slots : KvGetSettle(s)
    \/ \E s \in Slots : KvPutCountSettle(s)
    \/ \E s \in Slots : KvPutSubSettle(s)
    \/ Tick

SpecIdent == InitIdent /\ [][NextIdent]_vars

\* ------------------------------------------------------ the hour bucket
\* valid requests, verification bypassed, one at a time, on servers whose local
\* time is ahead of or behind UTC by up to an hour, in steps of one tick
Offsets == (0 - TicksPerHour)..TicksPerHour
BucketEnvs ==
    [secret : {JsUndefined}, skip : {JsString(S_True)}, kvBound : {TRUE}, tz : Offsets]
BucketRequests == [headers : Headers, body : {ValidBody}]

InitBucket ==
    /\ env \in BucketEnvs
    /\ now = 0
    /\ kv = << >>
    /\ slot = [s \in Slots |-> Idle]
    /\ started = 0
    /\ ledger = InitialLedger(kv)

ReceiveBucket(s) ==
    /\ \A q \in Slots : slot[q].pc \in {"idle", "done"}
    /\ ReceiveFrom(s, BucketRequests, MaxReqs)

NextBucket ==
    \/ \E s \in Slots : ReceiveBucket(s)
    \/ \E s \in Slots : KvGetSettle(s)
    \/ \E s \in Slots : KvPutCountSettle(s)
    \/ \E s \in Slots : KvPutSubSettle(s)
    \/ Tick

SpecBucket == InitBucket /\ [][NextBucket]_vars

\* ------------------------------------------------ every call is answered
\* one request at a time, over the requests and deployments of the concurrent
\* specification; the external call a request waits for eventually returns or
\* throws
ReceiveLive(s) ==
    /\ \A q \in Slots : slot[q].pc \in {"idle", "done"}
    /\ Receive(s)

Settle ==
    \E s \in Slots :
       \/ FetchSettle(s)
       \/ ConcVerifyJsonSettle(s)
       \/ KvGetSettle(s)
       \/ KvPutCountSettle(s)
       \/ KvPutSubSettle(s)

NextLive ==
    \/ \E s \in Slots : ReceiveLive(s)
    \/ Settle
    \/ Tick

SpecLive == Init /\ [][NextLive]_vars /\ WF_vars(Settle)

\* ------------------------------------------------ one bucket, concurrently
\* valid requests of one identity, verification bypassed, interleaving at
\* their awaits, from an empty store that answers every call, and within one
\* hour, so that no key expires
RaceEnvs == [secret : {JsUndefined}, skip : {JsString(S_True)}, kvBound : {TRUE}, tz : {0}]

InitRace ==
    /\ env \in RaceEnvs
    /\ now = 0
    /\ kv = << >>
    /\ slot = [s \in Slots |-> Idle]
    /\ started = 0
    /\ ledger = InitialLedger(kv)

ReceiveRace(s) == ReceiveFrom(s, BucketRequests, MaxSeqReqs - 1)

NextRace ==
    \/ \E s \in Slots : ReceiveRace(s)
    \/ \E s \in Slots : KvGetAnswered(s)
    \/ \E s \in Slots : KvPutCountAnswered(s)
    \/ \E s \in Slots : KvPutSubAnswered(s)

SpecRace == InitRace /\ [][NextRace]_vars

\* ------------------------------------------------- two identities
\* valid requests of two identities, verification bypassed, interleaving at
\* their awaits, against a store that already holds a counter of each
\* identity and a Submission
FrameHeaders ==
    [cf : {JsString(S_Ip1), JsString(S_Ip2)}, xff : {JsNull}, origin : {JsString(O_Production)}]
FrameRequests == [headers : FrameHeaders, body : {ValidBody}]
FrameStore ==
    LET a == KvPut(<< >>, RateLimitKey(S_Ip1, 0), NumToStr(MAX_REQUESTS - 1),
                   WINDOW_HOURS * SecondsPerHour, 0)
        b == KvPut(a, RateLimitKey(S_Ip2, 0), NumToStr(1), WINDOW_HOURS * SecondsPerHour, 0)
    IN KvPut(b, ContactKey(0, MaxReqs + 1), SubmissionValue(S_Ada, S_Email, S_Hi, 0), 0, 0)

InitFrame ==
    /\ env \in RaceEnvs
    /\ now = 0
    /\ kv = FrameStore
    /\ slot = [s \in Slots |-> Idle]
    /\ started = 0
    /\ ledger = InitialLedger(kv)

ReceiveFrame(s) == ReceiveFrom(s, FrameRequests, MaxReqs)

NextFrame ==
    \/ \E s \in Slots : ReceiveFrame(s)
    \/ \E s \in Slots : KvGetSettle(s)
    \/ \E s \in Slots : KvPutCountSettle(s)
    \/ \E s \in Slots : KvPutSubSettle(s)
    \/ Tick

SpecFrame == InitFrame /\ [][NextFrame]_vars

\* ------------------------------------------- one request after the other
\* valid requests of one identity, with verification bypassed, against a
\* bound KV namespace, each started when no other is in flight
SeqHeaders ==
    { [cf |-> JsString(S_Ip1), xff |-> JsNull, origin |-> JsString(O_Production)] }
SeqRequests == [headers : SeqHeaders, body : {ValidBody}]
SeqEnvs == [secret : {JsUndefined}, skip : {JsString(S_True)}, kvBound : {TRUE}, tz : {0}]

InitSeq ==
    /\ env \in SeqEnvs
    /\ now = 0
    /\ kv = << >>
    /\ slot = [s \in Slots |-> Idle]
    /\ started = 0
    /\ ledger = InitialLedger(kv)

ReceiveSeq(s) ==
    /\ \A q \in Slots : slot[q].pc \in {"idle", "done"}
    /\ ReceiveFrom(s, SeqRequests, MaxSeqReqs)

NextSeq ==
    \/ \E s \in Slots : ReceiveSeq(s)
    \/ \E s \in Slots : KvGetSettle(s)
    \/ \E s \in Slots : KvPutCountSettle(s)
    \/ \E s \in Slots : KvPutSubSettle(s)
    \/ Tick

SpecSeq == InitSeq /\ [][NextSeq]_vars

\* ---------------------------------------------------------------- claims
Has(log, e) == \E i \in 1..Len(log) : log[i] = e
Before(log, a, b) == \E i, j \in 1..Len(log) : i < j /\ log[i] = a /\ log[j] = b

Handled(c) == c.rid > 0
Parsed(c) == Has(c.log, "parsed")
\* the request has read or written a rate-limit counter
TouchedCounter(c) == Has(c.log, "kvGet") \/ Has(c.log, "kvPutCount")
\* the request has called the store at all
TouchedStore(c) == TouchedCounter(c) \/ Has(c.log, "kvPutSub")
\* the three checks were passed, in this order, before the Submission write
ChecksInOrder(log) ==
    /\ Before(log, "verified", "validated")
    /\ Before(log, "validated", "rlAllowed")
    /\ Before(log, "rlAllowed", "kvPutSub")
    /\ ~Has(log, "rlDenied")
ContactKeys(store) == {k \in DOMAIN store : k.prefix = "contact"}
CounterKeys(store) == {k \in DOMAIN store : k.prefix = "ratelimit"}

\* C1: a Submission is written to the store only by a request that has passed
\* the Bot Verifier, then the Field Validator, then the Rate Limiter (allowed),
\* in this order; a request issues the write only after these three.
C1_StoreOnlyAfterChecks ==
    [][ /\ \A k \in ContactKeys(kv') \ ContactKeys(kv) :
              \E s \in Slots :
                 /\ slot[s].pc = "awaitKvPutSub"
                 /\ slot[s].putKey = k
                 /\ ChecksInOrder(slot[s].log)
                 /\ slot'[s].log = Append(slot[s].log, "stored")
        /\ \A s \in Slots :
              Has(slot'[s].log, "kvPutSub") => ChecksInOrder(slot'[s].log)
      ]_vars

\* C1 witness: a Submission is in the store, written by a request whose
\* verification went through the service
C1_Witness ==
    \E s \in Slots :
       /\ Has(slot[s].log, "stored")
       /\ Has(slot[s].log, "fetch")
       /\ slot[s].putKey \in ContactKeys(kv)

\* the Bot Verifier rejected the request
BotRejected(c) ==
    /\ c.pc = "done"
    /\ c.resp \in {RespNoToken, RespConfig, RespCaptchaUnavailable,
                   ErrorResponse(400, ERR_CAPTCHA_FAILED)}
\* the Field Validator rejects the request's fields
FieldsRejected(c) ==
    /\ Parsed(c)
    /\ ValidateFields(TrimField(c.req.body.name), TrimField(c.req.body.email),
                      TrimField(c.req.body.message)) # NoError

\* C2: a request that fails the Bot Verifier or the Field Validator never
\* reads or writes a rate-limit counter, and none of its steps changes the
\* store.
C2_NoBudgetForRejected ==
    [][ \A s \in Slots :
           (BotRejected(slot'[s]) \/ FieldsRejected(slot'[s])) =>
              /\ ~TouchedCounter(slot'[s])
              /\ (slot'[s] # slot[s] => kv' = kv)
      ]_vars

\* C2 witness: a request with a bad e-mail address has been rejected by the
\* validator after the service verified it, next to a request that was counted
C2_Witness ==
    \E s \in Slots :
       /\ slot[s].pc = "done"
       /\ slot[s].resp = ErrorResponse(400, ERR_EMAIL)
       /\ Has(slot[s].log, "verified")
       /\ CounterKeys(kv) # {}
       /\ \E q \in Slots \ {s} : Has(slot[q].log, "rlAllowed")

NoSecretNoFlag == ~Truthy(env.secret) /\ env.skip # JsString(S_True)
\* the request reached the Bot Verifier with a token
HasToken(c) == Handled(c) /\ Parsed(c) /\ Truthy(c.req.body.token)

\* C4 as stated: without a secret and without the flag every request, whatever
\* its parts, is answered 503 "Server configuration error."
C4_AlwaysConfigError ==
    NoSecretNoFlag =>
       \A s \in Slots :
          Handled(slot[s]) => (slot[s].pc = "done" /\ slot[s].resp = RespConfig)

\* C4 amended: without a secret and without the flag every request whose body
\* parses and carries a token is answered 503 "Server configuration error.",
\* whatever its fields and headers are.
C4_ConfigErrorWithToken ==
    NoSecretNoFlag =>
       \A s \in Slots :
          HasToken(slot[s]) => (slot[s].pc = "done" /\ slot[s].resp = RespConfig)

\* C4 witness: no secret, no flag, and a request with a token and a name that
\* is a number has been answered 503
C4_Witness ==
    \E s \in Slots :
       /\ NoSecretNoFlag
       /\ slot[s].req.body = [ValidBody EXCEPT !.name = JsNumber(7)]
       /\ slot[s].resp = RespConfig

CallFailed(c) == Has(c.log, "fetchRejected") \/ c.verify.kind = "throws"

\* C6: when the fetch rejects or the body of its response cannot be read, the
\* response is 503 "Unable to verify CAPTCHA", and the request calls the store
\* neither for a counter nor for a Submission.
C6_NetworkFailureIs503 ==
    \A s \in Slots :
       CallFailed(slot[s]) =>
          /\ slot[s].pc = "done"
          /\ slot[s].resp.status = 503
          /\ slot[s].resp.body.text = ERR_CAPTCHA_UNAVAILABLE
          /\ ~slot[s].resp.body.success
          /\ ~TouchedStore(slot[s])

\* C6 witness: the body of the service's response could not be read, for a
\* valid request
C6_Witness ==
    \E s \in Slots :
       /\ slot[s].verify.kind = "throws"
       /\ slot[s].req.body = ValidBody
       /\ slot[s].resp = RespCaptchaUnavailable

\* the service answered, and not with success: true
VerificationFailed(c) == c.verify.kind = "object" /\ c.verify.success # JsBool(TRUE)

\* the one response to a failed verification: status 400, the fixed message,
\* no field carrying anything the service sent
FixedCaptchaFailed == ErrorResponse(400, Err("CAPTCHA verification failed. Please try again."))

StoredCount(store, k) == IF k \in DOMAIN store THEN ParseInt(store[k].value) ELSE 0
\* slot s's kv.get is answered in this step
ReadsCount(s) ==
    /\ slot[s].pc = "awaitKvGet"
    /\ slot'[s].pc # "awaitKvGet"
    /\ ~Has(slot'[s].log, "kvGetRejected")
\* slot s's write of the counter succeeds in this step
WritesCount(s) ==
    /\ slot[s].pc = "awaitKvPutCount"
    /\ slot'[s].pc # "awaitKvPutCount"
    /\ ~Has(slot'[s].log, "kvPutCountRejected")

\* C8: checkRateLimit that reads the count c under its key: with c >= 5 it
\* returns {allowed: false, remaining: 0}, writes nothing, and the response is
\* 429 with remaining "0"; with c < 5 it writes c + 1 under the same key with
\* a TTL of 3600 s and returns {allowed: true, remaining: 5 - c - 1}.
C8_CheckRateLimit ==
    [][ \A s \in Slots :
          /\ ReadsCount(s) =>
                LET c == StoredCount(kv, slot[s].key)
                IN /\ kv' = kv
                   /\ slot'[s].count = c
                   /\ IF c >= 5
                      THEN /\ slot'[s].rl = [allowed |-> FALSE, remaining |-> 0]
                           /\ ~Has(slot'[s].log, "kvPutCount")
                           /\ slot'[s].pc = "done"
                           /\ slot'[s].resp.status = 429
                           /\ slot'[s].resp.hdr.rlRemaining = Chr("0")
                      ELSE /\ slot'[s].pc = "awaitKvPutCount"
                           /\ slot'[s].putKey = slot[s].key
                           /\ slot'[s].putValue = NumToStr(c + 1)
                           /\ slot'[s].putTtl = 3600
          /\ WritesCount(s) =>
                LET c == slot[s].count
                IN /\ slot[s].key \in DOMAIN kv'
                   /\ kv'[slot[s].key].value = NumToStr(c + 1)
                   /\ kv'[slot[s].key].exp = now + TicksPerHour
                   /\ \A k \in DOMAIN kv \ {slot[s].key} : k \in DOMAIN kv' /\ kv'[k] = kv[k]
                   /\ slot'[s].rl = [allowed |-> TRUE, remaining |-> 5 - c - 1]
                   /\ Has(slot'[s].log, "rlAllowed") ]_vars

\* C8 witness: the caller that read 4 was allowed with remaining 0 and wrote 5,
\* and the next caller has read 5 and has been answered 429
C8_Witness ==
    \E s \in Slots :
       /\ slot[s].count = 5
       /\ slot[s].resp = RespRateLimited
       /\ slot[s].key \in DOMAIN kv
       /\ kv[slot[s].key].value = NumToStr(5)
       /\ Entry(ledger, slot[s].key).allowed = 5

\* all reads of key k were served within k's hour
InBucket(k) == ~Entry(ledger, k).late

\* C9: requests of one client handled one after the other, from an empty
\* store: a request whose count is read within its hour bucket reads the
\* number of requests accepted in that bucket so far (none in a new bucket);
\* from 5 on it is answered 429 and stores nothing; so no bucket has more
\* than 5 accepted and stored requests.
C9_AtMostFivePerHour ==
    [][ /\ \A s \in Slots :
             (ReadsCount(s) /\ InBucket(slot[s].key)') =>
                /\ slot'[s].count = Entry(ledger, slot[s].key).allowed
                /\ slot'[s].count >= MAX_REQUESTS =>
                      /\ slot'[s].pc = "done"
                      /\ slot'[s].resp = RespRateLimited
                      /\ ~Has(slot'[s].log, "kvPutSub")
                      /\ kv' = kv
        /\ \A k \in DOMAIN ledger' :
              InBucket(k)' =>
                 /\ ledger'[k].allowed <= MAX_REQUESTS
                 /\ ledger'[k].stored <= ledger'[k].allowed ]_vars

\* C9 witness: 5 requests were accepted and stored in the first hour, a later
\* one of that hour was answered 429, and the request of the next hour has
\* been accepted as the first of its bucket
C9_Witness ==
    \E s \in Slots :
       LET k0 == RateLimitKey(S_Ip1, 0)
       IN /\ Entry(ledger, k0).stored = MAX_REQUESTS
          /\ Entry(ledger, k0).denied > 0
          /\ InBucket(k0)
          /\ slot[s].key.ts > 0
          /\ InBucket(slot[s].key)
          /\ slot[s].resp = RespSuccess(MAX_REQUESTS - 1)
          /\ Has(slot[s].log, "stored")

\* the counting store was not available to the request in slot s
StoreUnavailable(c) ==
    \/ ~env.kvBound /\ Has(c.log, "validated")
    \/ Has(c.log, "kvGetRejected")
    \/ Has(c.log, "kvPutCountRejected")

\* C10 as stated: when the binding is missing, or the get or the put of the
\* counter fails, the request is treated as allowed and goes on to the Store
\* stage.
C10_FailsOpen ==
    \A s \in Slots : StoreUnavailable(slot[s]) => Has(slot[s].log, "rlAllowed")

\* C11: a request that passed every check and whose write of the Submission
\* fails is answered 500 {success: false, error: "Internal server error."};
\* it is never answered with success, and its Submission is not in the store.
C11_StoreFailureIs500 ==
    \A s \in Slots :
       Has(slot[s].log, "kvPutSubRejected") =>
          /\ ChecksInOrder(slot[s].log)
          /\ slot[s].pc = "done"
          /\ slot[s].resp.status = 500
          /\ ~slot[s].resp.body.success
          /\ slot[s].resp.body.text = Err("Internal server error.")
          /\ ~Has(slot[s].log, "stored")
          /\ slot[s].putKey \notin DOMAIN kv

\* C11 witness: a request the service verified and the limiter allowed has
\* been answered 500 after its put rejected
C11_Witness ==
    \E s \in Slots :
       /\ Has(slot[s].log, "kvPutSubRejected")
       /\ Has(slot[s].log, "fetch")
       /\ Has(slot[s].log, "rlAllowed")
       /\ slot[s].resp = RespInternal

\* C12 as stated: a 200 {success: true} response is only returned after the
\* write of the request's Submission has completed; without the binding
\* CONTACT_SUBMISSIONS a request that passed its checks ends in 500.
C12_SuccessOnlyAfterWrite ==
    \A s \in Slots :
       /\ slot[s].resp.status = 200 =>
             (Has(slot[s].log, "stored") /\ slot[s].putKey \in DOMAIN kv)
       /\ (~env.kvBound /\ Has(slot[s].log, "validated")) => slot[s].resp.status = 500

\* requests a and b were both allowed after reading the same count of one key
SameRead(a, b) ==
    /\ a # b
    /\ Has(slot[a].log, "rlAllowed") /\ Has(slot[b].log, "rlAllowed")
    /\ Has(slot[a].log, "kvPutCount") /\ Has(slot[b].log, "kvPutCount")
    /\ slot[a].key = slot[b].key
    /\ slot[a].count = slot[b].count

\* C13: with requests interleaving at their awaits, a counter that started at
\* c and under which N >= 1 requests were allowed (all read within the hour)
\* holds at least c + 1 and at most c + N, so it falls short of the accepted
\* requests by at most N - 1, and it never holds more than the limit.
C13_UndercountBounded ==
    \A k \in DOMAIN ledger :
       (InBucket(k) /\ k \in DOMAIN kv /\ ledger[k].allowed >= 1) =>
          /\ StoredCount(kv, k) >= ledger[k].base + 1
          /\ StoredCount(kv, k) <= ledger[k].base + ledger[k].allowed
          /\ StoredCount(kv, k) <= MAX_REQUESTS

\* C13 witness: two requests of one bucket read the count 4 and were both
\* allowed and stored: 6 requests accepted under a counter that holds 5
C13_Witness ==
    \E a, b \in Slots :
       /\ SameRead(a, b)
       /\ Has(slot[a].log, "stored") /\ Has(slot[b].log, "stored")
       /\ LET k == slot[a].key
          IN /\ InBucket(k)
             /\ ledger[k].base = MAX_REQUESTS - 1
             /\ ledger[k].allowed = 2
             /\ ledger[k].base + ledger[k].stored > MAX_REQUESTS
             /\ k \in DOMAIN kv
             /\ StoredCount(kv, k) = ledger[k].base + ledger[k].allowed - 1

\* the three shapes of an allowed Origin: http://localhost with or without a
\* port, https on the production domain or a subdomain of it, https on a
\* subdomain of pages.dev
ThreeShapes(origin) ==
    /\ origin.t = "string"
    /\ LET url == UrlParse(origin.s)
           http == FromTokens(<<"http", ":">>)
           https == FromTokens(<<"https", ":">>)
           production == FromTokens(<<"twistan", ".", "com">>)
       IN /\ url.ok
          /\ \/ url.protocol = http /\ url.hostname = Chr("localhost")
             \/ /\ url.protocol = https
                /\ \/ url.hostname = production
                   \/ EndsWith(url.hostname, Concat(Chr("."), production))
             \/ /\ url.protocol = https
                /\ EndsWith(url.hostname, FromTokens(<<".", "pages", ".", "dev">>))

Answered(c) == c.pc = "done"
IsPreflight(c) == Has(c.log, "options")

\* C14 as stated: the Origin is echoed exactly when it has one of the three
\* shapes; every other value, and a missing header, resolves to
\* https://twistan.com.
C14_ExactlyThreeShapes ==
    \A s \in Slots :
       Answered(slot[s]) =>
          slot[s].respHeaders.allowOrigin =
             IF ThreeShapes(slot[s].req.headers.origin)
             THEN slot[s].req.headers.origin.s ELSE DEFAULT_ORIGIN

ResolvedOrigin(headers) ==
    IF isAllowedOrigin(headers.origin) THEN headers.origin.s ELSE DEFAULT_ORIGIN

UnescapeToken(c) == IF c = "\\\"" THEN "\"" ELSE IF c = "\\\\" THEN "\\" ELSE c
RECURSIVE ScanString(_, _, _)
ScanString(q, i, acc) ==
    IF i > Len(q) THEN [ok |-> FALSE, s |-> acc, next |-> i]
    ELSE IF q[i] = "\"" THEN [ok |-> TRUE, s |-> acc, next |-> i + 1]
    ELSE ScanString(q, i + 1, Append(acc, UnescapeToken(q[i])))
\* the member `name: "..."` at position i of q
ReadMember(q, i, name) ==
    IF i + 1 > Len(q) \/ q[i] # name \/ q[i + 1] # "\""
    THEN [ok |-> FALSE, s |-> << >>, next |-> i]
    ELSE ScanString(q, i + 2, << >>)
\* JSON.parse of a stored Submission
ParseSubmission(v) ==
    LET q == Expand(v)
        n == ReadMember(q, 2, "name:")
        e == ReadMember(q, n.next + 1, "email:")
        m == ReadMember(q, e.next + 1, "message:")
        t == ReadMember(q, m.next + 1, "submittedAt:")
    IN [ok |-> /\ Len(q) > 0 /\ q[1] = "{"
               /\ n.ok /\ e.ok /\ m.ok /\ t.ok
               /\ q[n.next] = "," /\ q[e.next] = "," /\ q[m.next] = ","
               /\ t.next = Len(q) /\ q[t.next] = "}",
        name |-> FromTokens(n.s), email |-> FromTokens(e.s),
        message |-> FromTokens(m.s), submittedAt |-> FromTokens(t.s)]

\* the writes under contact_ keys that carry the UUID of request rid
WritesOf(store, rid) == {k \in ContactKeys(store) : k.id = Uuid(rid)}

\* C17 as stated: every request answered with success has exactly one write
\* in the store under a contact_<timestamp>_<uuid> key, whose value parses to
\* the trimmed name, email and message of the request and to a submittedAt
\* equal to the timestamp of the key.
C17_OneWritePerSuccess ==
    \A s \in Slots :
       slot[s].resp.status = 200 =>
          /\ Cardinality(WritesOf(kv, slot[s].rid)) = 1
          /\ \A k \in WritesOf(kv, slot[s].rid) :
                LET d == ParseSubmission(kv[k].value)
                IN /\ d.ok
                   /\ d.name = Trim(slot[s].req.body.name.s)
                   /\ d.email = Trim(slot[s].req.body.email.s)
                   /\ d.message = Trim(slot[s].req.body.message.s)
                   /\ d.submittedAt = IsoString(k.ts)
\* the secret is configured, the service accepted the token and the fields
\* passed validation
VerifiedValid(c) ==
    /\ Handled(c) /\ Truthy(env.secret)
    /\ Has(c.log, "fetch") /\ Has(c.log, "verified") /\ Has(c.log, "validated")
\* the read of the counter was answered, with the count given
BucketRead(c, n) ==
    /\ Has(c.log, "kvGet") /\ c.pc # "awaitKvGet" /\ ~Has(c.log, "kvGetRejected")
    /\ c.count = n
\* no call to the store was rejected
StoreAnswered(c) ==
    /\ ~Has(c.log, "kvGetRejected") /\ ~Has(c.log, "kvPutCountRejected")
    /\ ~Has(c.log, "kvPutSubRejected")

\* C18: a request with valid fields, a token the service accepts and a
\* configured secret, whose bucket is empty when it is read, and whose store
\* calls are answered, ends with status 200, X-RateLimit-Limit "5",
\* X-RateLimit-Remaining "4" and one Submission written to the store.
C18_EndToEndSuccess ==
    \A s \in Slots :
       LET c == slot[s]
       IN (c.pc = "done" /\ VerifiedValid(c) /\ BucketRead(c, 0) /\ StoreAnswered(c)) =>
             /\ c.resp.status = 200
             /\ c.resp.body.success
             /\ c.resp.hdr.rlLimit = Chr("5")
             /\ c.resp.hdr.rlRemaining = Chr("4")
             /\ Cardinality(WritesOf(kv, c.rid)) = 1

C18_Witness ==
    \E s \in Slots :
       /\ slot[s].pc = "done" /\ VerifiedValid(slot[s]) /\ BucketRead(slot[s], 0)
       /\ slot[s].req.body = ValidBody
       /\ slot[s].resp = RespSuccess(4)
       /\ StoredCount(kv, slot[s].key) = 1
       /\ Cardinality(WritesOf(kv, slot[s].rid)) = 1
\* the number of times e was logged
Count(log, e) == Cardinality({i \in 1..Len(log) : log[i] = e})

\* C19: a request with valid fields whose token the service accepted, and
\* whose bucket is read with the count already at 5, ends with status 429,
\* Retry-After "3600", X-RateLimit-Limit "5" and X-RateLimit-Remaining "0";
\* it puts neither a counter nor a Submission; and it called the verification
\* service exactly once, the call having passed before the 429 was produced.
C19_EndToEndRateLimited ==
    \A s \in Slots :
       LET c == slot[s]
       IN (c.pc = "done" /\ VerifiedValid(c) /\ BucketRead(c, 5)) =>
             /\ c.resp.status = 429
             /\ ~c.resp.body.success
             /\ c.resp.hdr.retryAfter = <<Run("3", 1), Run("6", 1), Run("0", 2)>>
             /\ c.resp.hdr.rlLimit = Chr("5")
             /\ c.resp.hdr.rlRemaining = Chr("0")
             /\ ~Has(c.log, "kvPutCount") /\ ~Has(c.log, "kvPutSub")
             /\ WritesOf(kv, c.rid) = {}
             /\ Count(c.log, "fetch") = 1
             /\ c.verify.success = JsBool(TRUE)
             /\ Before(c.log, "fetch", "verified")
             /\ Before(c.log, "verified", "rlDenied")

C19_Witness ==
    \E s \in Slots :
       /\ slot[s].pc = "done" /\ VerifiedValid(slot[s]) /\ BucketRead(slot[s], 5)
       /\ slot[s].req.body = ValidBody
       /\ slot[s].resp.status = 429
       /\ StoredCount(kv, slot[s].key) = 5
\* the handler does not accept the payload: it is no JSON object, or has no
\* token, or a field fails validation
InvalidPayload(b) ==
    \/ b.kind # "object"
    \/ ~Truthy(b.token)
    \/ ValidateFields(TrimField(b.name), TrimField(b.email), TrimField(b.message)) # NoError
\* the verification service gave both requests the same answer
SameAnswer(a, b) ==
    /\ a.verify = b.verify
    /\ Has(a.log, "fetchRejected") <=> Has(b.log, "fetchRejected")

\* C20: two requests with the same invalid body, in the same environment and
\* with the same answer of the verification service, get the same status and
\* the same error message, whatever happened to the counter and the stored
\* submissions between them.
C20_IdempotentRejection ==
    \A a, b \in TwiceSlots :
       (/\ a < b
        /\ slot[a].pc = "done" /\ slot[b].pc = "done"
        /\ slot[a].req.body = slot[b].req.body
        /\ InvalidPayload(slot[a].req.body)
        /\ SameAnswer(slot[a], slot[b])) =>
          /\ slot[a].resp.status = slot[b].resp.status
          /\ slot[a].resp.body = slot[b].resp.body
          /\ slot[a].resp.status \in {400, 500, 503}

C20_Witness ==
    \E a, m, b \in TwiceSlots :
       /\ a < m /\ m < b
       /\ slot[a].pc = "done" /\ slot[b].pc = "done" /\ slot[m].pc = "done"
       /\ slot[a].req.body = [ValidBody EXCEPT !.email = JsString(S_NoAt)]
       /\ slot[b].req.body = slot[a].req.body
       /\ Has(slot[a].log, "verified") /\ Has(slot[b].log, "verified")
       /\ Has(slot[m].log, "stored")
       /\ WritesOf(kv, slot[m].rid) # {}
       /\ StoredCount(kv, slot[m].key) = MAX_REQUESTS
       /\ slot[a].resp = ErrorResponse(400, ERR_EMAIL)
       /\ slot[b].resp = slot[a].resp
\* a field that is present and is no string
NonString(v) == v.t \notin {"string", "undefined"}
\* a field that is absent, or a string that is empty after trimming
Missing(v) == v.t = "undefined" \/ (v.t = "string" /\ Trim(v.s) = EmptyStr)
FieldsOf(b) == {b.name, b.email, b.message}
\* the request has come to the Field Validator
Validating(c) == c.pc = "done" /\ Has(c.log, "verified")

\* C21 as stated: a request whose fields are all there, one of them not a
\* string (whatever its value), is answered 400 "Invalid field types."; and
\* "All fields are required" is answered only when a field is absent or is
\* a string empty after trimming.
C21_NonStringIsTypeError ==
    \A s \in Slots :
       LET c == slot[s]
           b == c.req.body
       IN Validating(c) =>
             /\ ((\E v \in FieldsOf(b) : NonString(v)) /\ (\A v \in FieldsOf(b) : ~Missing(v)))
                   => c.resp = ErrorResponse(400, ERR_TYPES)
             /\ c.resp.body.text = ERR_REQUIRED => \E v \in FieldsOf(b) : Missing(v)
\* the three fields are strings, none empty after trimming
AllStrings(b) == \A v \in FieldsOf(b) : v.t = "string" /\ ~Missing(v)
\* the length of a string field after trimming
TrimmedLen(v) == StrLen(Trim(v.s))
TooLong(field, max) == ErrorResponse(400, ErrExceeds(field, max))

\* C22: for string fields the trimmed length is checked against 100 (name),
\* 254 (email) and 5000 (message): when none exceeds its maximum the response
\* is no "exceeds" error; otherwise the response is 400 "<field> exceeds
\* <max> characters." for the first field, in the order name, email, message,
\* that is too long, whatever the shape of the email, and the request does not
\* come to the Rate Limiter.
C22_LengthBounds ==
    \A s \in Slots :
       LET c == slot[s]
           b == c.req.body
       IN (Validating(c) /\ AllStrings(b)) =>
             LET n == TrimmedLen(b.name)
                 e == TrimmedLen(b.email)
                 m == TrimmedLen(b.message)
             IN /\ n > 100 => c.resp = TooLong("name", 100)
                /\ (n <= 100 /\ e > 254) => c.resp = TooLong("email", 254)
                /\ (n <= 100 /\ e <= 254 /\ m > 5000) => c.resp = TooLong("message", 5000)
                /\ (n <= 100 /\ e <= 254 /\ m <= 5000) => c.resp.body.text.text # "exceeds"
                /\ c.resp.body.text.text = "exceeds" =>
                      /\ c.resp.status = 400
                      /\ ~TouchedCounter(c)

\* C22 witness: the bucket is at the limit, and a name of 101 characters with
\* an email without "@" has been answered with the name's length error
C22_Witness ==
    \E s \in Slots :
       /\ Validating(slot[s])
       /\ slot[s].req.body.name = LongName(101)
       /\ slot[s].req.body.email = JsString(S_NoAt)
       /\ slot[s].resp = TooLong("name", 100)
       /\ StoredCount(kv, RateLimitKey(S_Ip1, now)) = 5
\* a call to the store was rejected
StoreThrew(c) ==
    \/ Has(c.log, "kvGetRejected") \/ Has(c.log, "kvPutCountRejected")
    \/ Has(c.log, "kvPutSubRejected")
\* the 500 response of the catch, with the CORS headers of the request
Is500(c) ==
    /\ c.pc = "done"
    /\ c.resp = RespInternal
    /\ c.respHeaders = getCorsHeaders(c.req.headers)
\* nothing was called: no verification, no counter, no Submission
NoSideEffect(c) == ~Has(c.log, "fetch") /\ ~TouchedStore(c)

\* C23 as stated: a body that cannot be parsed or is no object, like any
\* other exception of the pipeline, is answered by the one 500 response with
\* the CORS headers, before any side effect.
C23_NonObjectBodyIs500 ==
    \A s \in Slots :
       LET c == slot[s]
       IN /\ (Handled(c) /\ c.req.body.kind # "object") => Is500(c) /\ NoSideEffect(c)
          /\ (c.pc = "done" /\ StoreThrew(c)) => Is500(c)

\* C23 amended: a body for which request.json() rejects or which is null, and
\* a rejected store call, are answered by the one 500 response with the CORS
\* headers, the former before any side effect; a failed verification call is
\* answered 503 by the inner catch; a JSON value without properties (a number)
\* throws nothing and is answered 400 for its missing token, without side
\* effect; and the 500 response has no other cause.
C23_ExceptionIs500 ==
    \A s \in Slots :
       LET c == slot[s]
           k == c.req.body.kind
       IN /\ (Handled(c) /\ k \in {"unparseable", "null"}) => Is500(c) /\ NoSideEffect(c)
          /\ (c.pc = "done" /\ StoreThrew(c)) => Is500(c)
          /\ (c.pc = "done" /\ CallFailed(c)) =>
                c.resp = RespCaptchaUnavailable /\ ~TouchedStore(c)
          /\ (Handled(c) /\ k = "number") =>
                /\ c.pc = "done" /\ c.resp = RespNoToken
                /\ c.respHeaders = getCorsHeaders(c.req.headers)
                /\ NoSideEffect(c)
          /\ (c.pc = "done" /\ c.resp.status = 500) =>
                Is500(c) /\ (k \in {"unparseable", "null"} \/ StoreThrew(c))

\* C23 witness: a null body has been answered 500 with nothing called
C23_Witness ==
    \E s \in Slots :
       /\ slot[s].req.body = OtherBody("null")
       /\ Is500(slot[s])
       /\ slot[s].log = << >>
       /\ kv = << >>
\* the identity as C24 states it: the header that is present
StatedIdentity(h) ==
    IF h.cf.t = "string" THEN h.cf.s
    ELSE IF h.xff.t = "string" THEN BeforeComma(h.xff.s)
    ELSE Chr("unknown")
\* the identity by the first choice that is not empty
NonEmptyIdentity(h) ==
    IF h.cf.t = "string" /\ h.cf.s # EmptyStr THEN h.cf.s
    ELSE IF h.xff.t = "string" /\ BeforeComma(h.xff.s) # EmptyStr THEN BeforeComma(h.xff.s)
    ELSE Chr("unknown")
\* the counter keys of the store are those of the identities given
BucketsOf(store) == {k.id : k \in CounterKeys(store)}

\* C24 as stated: the rate-limit key of a request is ratelimit_<identity>_<hour>
\* where the identity is CF-Connecting-IP when that header is present,
\* otherwise the first entry of X-Forwarded-For, otherwise "unknown".
C24_IdentityByPresence ==
    \A s \in Slots :
       Has(slot[s].log, "kvGet") =>
          /\ slot[s].key.prefix = "ratelimit"
          /\ slot[s].key.id = StatedIdentity(slot[s].req.headers)

\* C24 amended: the identity is CF-Connecting-IP when that header is present
\* and not empty, otherwise the first comma-separated entry of
\* X-Forwarded-For when that entry is not empty, otherwise "unknown"; the key
\* is ratelimit_<identity>_<hour>, the hour being a start of an hour not
\* after now, and the counters of the store are those of such identities.
C24_IdentityByNonEmpty ==
    /\ \A s \in Slots :
          Has(slot[s].log, "kvGet") =>
             /\ slot[s].key.prefix = "ratelimit"
             /\ slot[s].key.id = NonEmptyIdentity(slot[s].req.headers)
             /\ slot[s].key.id # EmptyStr
             /\ slot[s].key.ts = HourTimestamp(slot[s].key.ts)
             /\ slot[s].key.ts <= now
    /\ BucketsOf(kv) \subseteq {NonEmptyIdentity(h) : h \in IdentHeaders}

\* C24 witness: two requests without either header have been counted in the
\* one "unknown" bucket of the hour
C24_Witness ==
    \E s \in Slots :
       /\ started = 2
       /\ slot[s].req.headers.cf = JsNull /\ slot[s].req.headers.xff = JsNull
       /\ Has(slot[s].log, "stored")
       /\ slot[s].key = KvKey("ratelimit", Chr("unknown"), 0)
       /\ StoredCount(kv, slot[s].key) = 2
       /\ BucketsOf(kv) = {Chr("unknown")}
\* slot s takes a request in this step and computes its bucket key
ComputesKey(s) == slot'[s].rid # slot[s].rid /\ Has(slot'[s].log, "kvGet")

\* C25 as stated: whatever the time zone of the server, the hour of the bucket
\* key computed at time t is t floored to the start of its UTC hour.
C25_BucketIsUtcHour ==
    [][ \A s \in Slots :
           ComputesKey(s) => slot'[s].key.ts = now - (now % TicksPerHour) ]_vars
\* the place of an event in the pipeline ParseBody, VerifyBot, ValidateFields,
\* CheckRateLimit, Store
Stage(e) ==
    CASE e = "parsed" -> 1
      [] e \in {"fetch", "bypass"} -> 2
      [] e \in {"fetchRejected", "verified"} -> 3
      [] e = "validated" -> 4
      [] e = "kvGet" -> 5
      [] e \in {"kvGetRejected", "rlDenied", "kvPutCount"} -> 6
      [] e \in {"kvPutCountRejected", "rlAllowed"} -> 7
      [] e = "kvPutSub" -> 8
      [] e \in {"kvPutSubRejected", "stored"} -> 9
\* the request moves forward only
Forward(log) == \A i, j \in 1..Len(log) : i < j => Stage(log[i]) < Stage(log[j])
InFlight(c) == c.pc \notin {"idle", "done"}
\* a request that is answered has a response, one in flight has none yet
OneResponse(c) ==
    /\ c.pc = "done" => c.resp.status \in {200, 400, 429, 500, 503}
    /\ InFlight(c) => c.resp = NoResponse

\* C26: when every external call eventually returns or throws, a request in
\* flight (there is one at a time) is eventually answered; its response, once given, does not change;
\* and its steps go forward only through the pipeline, with at most one
\* verification call, one read of the counter, one write of the counter and
\* one write of a Submission.
C26_TerminatesForwardOnly ==
    /\ (\E s \in Slots : InFlight(slot[s])) ~> (\A s \in Slots : ~InFlight(slot[s]))
    /\ [](\A s \in Slots :
            /\ Forward(slot[s].log)
            /\ OneResponse(slot[s])
            /\ Count(slot[s].log, "fetch") <= 1
            /\ Count(slot[s].log, "kvGet") <= 1
            /\ Count(slot[s].log, "kvPutCount") <= 1
            /\ Count(slot[s].log, "kvPutSub") <= 1)
    /\ [][ \A s \in Slots :
             (slot[s].pc = "done" /\ slot'[s].rid = slot[s].rid) => slot'[s] = slot[s] ]_vars

\* C26 witness: a request has gone through every stage and is answered
C26_Witness ==
    \E s \in Slots :
       /\ slot[s].pc = "done"
       /\ slot[s].resp.status = 200
       /\ slot[s].log = <<"parsed", "fetch", "verified", "validated", "kvGet",
                          "kvPutCount", "rlAllowed", "kvPutSub", "stored">>
\* C27: with requests of one identity interleaving at their awaits, from an
\* empty store and with no key expiring, a counter that is written holds
\* between 1 and 5 and never more than the number of requests the Rate
\* Limiter has allowed in its bucket so far; and a request is refused with
\* 429 only when at least 5 requests of its bucket were allowed before.
C27_NeverOvercounts ==
    /\ [](\A k \in CounterKeys(kv) :
            /\ StoredCount(kv, k) >= 1
            /\ StoredCount(kv, k) <= 5
            /\ StoredCount(kv, k) <= Entry(ledger, k).allowed)
    /\ [][ \A s \in Slots :
             (~Has(slot[s].log, "rlDenied") /\ Has(slot'[s].log, "rlDenied")) =>
                /\ slot'[s].resp.status = 429
                /\ Entry(ledger, slot'[s].key).allowed >= 5 ]_vars
    /\ [](\A s \in Slots : slot[s].resp.status = 429 => Has(slot[s].log, "rlDenied"))

\* C27 witness: five requests of the bucket were allowed from an empty store,
\* the counter holds 5, and a later request of the bucket has been refused
C27_Witness ==
    \E s \in Slots :
       LET k == slot[s].key
       IN /\ Has(slot[s].log, "rlDenied")
          /\ slot[s].resp = RespRateLimited
          /\ StoredCount(kv, k) = 5
          /\ Entry(ledger, k).allowed = 5
          /\ Entry(ledger, k).base = 0
\* C28: with a secret configured, whatever SKIP_CAPTCHA is, a request with a
\* token is sent to the verification service, once, and never bypasses it; it
\* goes on to the Field Validator only when the service has reported success,
\* and is otherwise answered 400 or 503 without a call to the store.
C28_SecretOverridesFlag ==
    Truthy(env.secret) =>
       \A s \in Slots :
          LET c == slot[s]
          IN HasToken(c) =>
                /\ Count(c.log, "fetch") = 1
                /\ ~Has(c.log, "bypass")
                /\ Has(c.log, "verified") =>
                      c.verify.kind = "object" /\ c.verify.success = JsBool(TRUE)
                /\ (c.pc = "done" /\ c.verify.success # JsBool(TRUE)) =>
                      /\ c.resp.status \in {400, 503}
                      /\ ~Has(c.log, "verified")
                      /\ ~TouchedStore(c)

\* C28 witness: a secret is configured and SKIP_CAPTCHA is "true"; a valid
\* request was sent to the service, which refused the token, and is answered 400
C28_Witness ==
    \E s \in Slots :
       /\ Truthy(env.secret) /\ env.skip = JsString(S_True)
       /\ slot[s].req.body = ValidBody
       /\ Has(slot[s].log, "fetch")
       /\ slot[s].verify.success = JsBool(FALSE)
       /\ slot[s].resp = ErrorResponse(400, ERR_CAPTCHA_FAILED)
\* the Submission write of slot s is rejected in this step
SubmissionWriteFails(s) ==
    slot[s].pc = "awaitKvPutSub" /\ Has(slot'[s].log, "kvPutSubRejected")

\* C29: when a request has passed the Rate Limiter, its counter written as
\* the count read plus one, and its Submission write then fails, the response
\* is 500, no Submission of the request is stored, and the store is left as
\* it is: the counter, unless it has expired, still holds the count read plus
\* one.
C29_NoRollback ==
    [][ \A s \in Slots :
           SubmissionWriteFails(s) =>
              /\ Has(slot[s].log, "kvPutCount") /\ Has(slot[s].log, "rlAllowed")
              /\ Is500(slot'[s])
              /\ WritesOf(kv', slot[s].rid) = {}
              /\ kv' = kv
              /\ slot[s].key \in DOMAIN kv' =>
                    StoredCount(kv', slot[s].key) = slot[s].count + 1 ]_vars

\* C29 witness: the count read was 4; the Submission write failed, the request
\* is answered 500 with nothing stored, and the counter holds 5
C29_Witness ==
    \E s \in Slots :
       /\ Has(slot[s].log, "kvPutSubRejected")
       /\ Is500(slot[s])
       /\ slot[s].count = 4
       /\ StoredCount(kv, slot[s].key) = 5
       /\ ContactKeys(kv) = {}
\* the keys whose entry this step adds, changes or removes
Changed(K) ==
    {k \in K : \/ (k \in DOMAIN kv) # (k \in DOMAIN kv')
               \/ k \in DOMAIN kv /\ k \in DOMAIN kv' /\ kv'[k] # kv[k]}
AllKeys == DOMAIN kv \cup DOMAIN kv'
\* this step is a step of the request in slot s
StepOf(s) == slot'[s] # slot[s] /\ slot'[s].rid = slot[s].rid /\ now' = now

\* C30: a step of a request of identity a reads the counter only under the
\* request's own key, changes no counter but the one of that key, which is
\* the key of a and of the start of an hour not after now, and changes no
\* Submission already stored; and no step whatever changes or removes a
\* stored Submission.
C30_OwnCounterOnly ==
    [][ /\ \A s \in Slots :
             StepOf(s) =>
                /\ \A k \in Changed(AllKeys) :
                      \/ /\ k = slot[s].key
                         /\ k.prefix = "ratelimit"
                         /\ k.id = ClientIP(slot[s].req.headers)
                         /\ k.ts = HourTimestamp(k.ts) /\ k.ts <= now
                      \/ /\ k.prefix = "contact"
                         /\ k.id = Uuid(slot[s].rid)
                         /\ k \notin DOMAIN kv
                /\ ReadsCount(s) => slot'[s].count = StoredCount(kv, slot[s].key)
                /\ Has(slot[s].log, "kvGet") => slot'[s].key = slot[s].key
        /\ Changed(ContactKeys(kv)) = {} ]_vars

\* C30 witness: requests of both identities were stored; the Submission that
\* was there before is as it was, and the counter of the second identity has
\* moved from 1 to 2 while the first one's moved from 4 to 5
C30_Witness ==
    \E a, b \in Slots :
       /\ slot[a].clientIP = S_Ip1 /\ slot[b].clientIP = S_Ip2
       /\ Has(slot[a].log, "stored") /\ Has(slot[b].log, "stored")
       /\ StoredCount(kv, RateLimitKey(S_Ip1, 0)) = MAX_REQUESTS
       /\ StoredCount(kv, RateLimitKey(S_Ip2, 0)) = 2
       /\ ContactKey(0, MaxReqs + 1) \in DOMAIN kv
       /\ kv[ContactKey(0, MaxReqs + 1)] = FrameStore[ContactKey(0, MaxReqs + 1)]
       /\ Cardinality(ContactKeys(kv)) = 3

====
